---- MODULE Spec2Model ----
(***************************************************************************)
(* Model of src/src/filebrowser.ts (class FileBrowser, lines 952-2014):    *)
(* the interactive file browser with its series-rename pipeline.           *)
(*                                                                         *)
(* Conventions                                                             *)
(*  - a string is a sequence of one-character strings;                     *)
(*  - an absolute path is the sequence of its components (<<>> is "/");    *)
(*  - a JavaScript value that may be undefined is a sequence of length 0   *)
(*    (undefined) or 1 (the value): None and Some(x).                      *)
(***************************************************************************)
EXTENDS Integers, Sequences, FiniteSets, TLC

None == <<>>
Some(x) == <<x>>

(***************************************************************************)
(* Strings                                                                 *)
(***************************************************************************)
Digits == <<"0", "1", "2", "3", "4", "5", "6", "7", "8", "9">>
Lowers == <<"a", "b", "c", "d", "e", "f", "g", "h", "i", "j", "k", "l", "m",
            "n", "o", "p", "q", "r", "s", "t", "u", "v", "w", "x", "y", "z">>
Uppers == <<"A", "B", "C", "D", "E", "F", "G", "H", "I", "J", "K", "L", "M",
            "N", "O", "P", "Q", "R", "S", "T", "U", "V", "W", "X", "Y", "Z">>

IsDigit(c) == \E i \in 1..Len(Digits) : Digits[i] = c

DigitValue(c) == (CHOOSE i \in 1..Len(Digits) : Digits[i] = c) - 1

\* String.prototype.toLowerCase on one character
LowerChar(c) ==
  IF \E i \in 1..Len(Uppers) : Uppers[i] = c
    THEN Lowers[CHOOSE i \in 1..Len(Uppers) : Uppers[i] = c]
    ELSE IF c = "Ä" THEN "ä" ELSE IF c = "Ö" THEN "ö" ELSE IF c = "Ü" THEN "ü" ELSE c

toLowerCase(s) == [i \in 1..Len(s) |-> LowerChar(s[i])]

\* the code units of the characters the model uses, in ascending order
CharOrder == <<"\t", " ", "\"", "'", ",", "-", ".", "/">> \o Digits \o <<":", "?">>
             \o Uppers \o <<"_">> \o Lowers \o <<"Ä", "Ö", "Ü", "ß", "ä", "ö", "ü">>

CharCode(c) == CHOOSE i \in 1..Len(CharOrder) : CharOrder[i] = c

\* s < t as JavaScript compares strings (by code unit, a prefix first)
RECURSIVE StrLess(_, _)
StrLess(s, t) ==
  IF t = <<>> THEN FALSE
  ELSE IF s = <<>> THEN TRUE
  ELSE IF s[1] = t[1] THEN StrLess(Tail(s), Tail(t))
  ELSE CharCode(s[1]) < CharCode(t[1])

\* String.prototype.startsWith
startsWith(s, t) == Len(t) <= Len(s) /\ SubSeq(s, 1, Len(t)) = t

\* `${n}` for a non-negative integer
RECURSIVE NumToStr(_)
NumToStr(n) ==
  IF n < 10 THEN <<Digits[n + 1]>>
  ELSE NumToStr(n \div 10) \o <<Digits[(n % 10) + 1]>>

\* parseInt on a non-empty string of decimal digits
RECURSIVE parseInt(_)
parseInt(s) ==
  IF Len(s) = 1 THEN DigitValue(s[1])
  ELSE 10 * parseInt(SubSeq(s, 1, Len(s) - 1)) + DigitValue(s[Len(s)])

\* a set of strings as the sequence in ascending string order
RECURSIVE SortStrings(_)
SortStrings(S) ==
  IF S = {} THEN <<>>
  ELSE LET m == CHOOSE x \in S : \A y \in S \ {x} : StrLess(x, y)
       IN <<m>> \o SortStrings(S \ {m})

SeqToSet(q) == {q[i] : i \in 1..Len(q)}

(***************************************************************************)
(* Module constants of filebrowser.ts                                      *)
(***************************************************************************)
videoFileExtensions == {<<".", "m", "p", "4">>, <<".", "m", "k", "v">>, <<".", "a", "v", "i">>}

\* /[eE]\d+/, /[xX]\d+/ and /\d+/: the characters the match may start with
\* (none for the bare digit run) and where the number starts in the match
episodeRegexes ==
  << [lead |-> {"e", "E"}, numberStart |-> 1],
     [lead |-> {"x", "X"}, numberStart |-> 1],
     [lead |-> {},         numberStart |-> 0] >>

episodeReplaces ==
  << [regex |-> <<"ä">>,      replacement |-> <<"a", "e">>],
     [regex |-> <<"ö">>,      replacement |-> <<"o", "e">>],
     [regex |-> <<"ü">>,      replacement |-> <<"u", "e">>],
     [regex |-> <<"ß">>,      replacement |-> <<"s", "s">>],
     [regex |-> <<"Ä">>,      replacement |-> <<"A", "E">>],
     [regex |-> <<"Ö">>,      replacement |-> <<"O", "E">>],
     [regex |-> <<"Ü">>,      replacement |-> <<"U", "E">>],
     [regex |-> <<"?">>,      replacement |-> <<>>],
     [regex |-> <<",">>,      replacement |-> <<>>],
     [regex |-> <<":", " ">>, replacement |-> <<"-">>],
     [regex |-> <<":">>,      replacement |-> <<"-">>],
     [regex |-> <<"\"">>,     replacement |-> <<"'">>],
     [regex |-> <<" ">>,      replacement |-> <<".">>],
     [regex |-> <<"/">>,      replacement |-> <<"_">>],
     [regex |-> <<"\t">>,     replacement |-> <<>>] >>

(***************************************************************************)
(* Regular expressions                                                     *)
(***************************************************************************)
\* the end of the digit run of s that starts at position i (s[i] is a digit)
RECURSIVE DigitRunEnd(_, _)
DigitRunEnd(s, i) ==
  IF i < Len(s) /\ IsDigit(s[i + 1]) THEN DigitRunEnd(s, i + 1) ELSE i

\* does one of the episodeRegexes match s at position i
MatchesAt(re, s, i) ==
  IF re.lead = {}
    THEN IsDigit(s[i])
    ELSE s[i] \in re.lead /\ i < Len(s) /\ IsDigit(s[i + 1])

\* String.prototype.match with a non-global regex: None for null, otherwise
\* Some(the leftmost match, its digit run taken greedily)
match(s, re) ==
  IF \E i \in 1..Len(s) : MatchesAt(re, s, i)
    THEN LET i == CHOOSE k \in 1..Len(s) :
                    MatchesAt(re, s, k) /\ \A j \in 1..(k - 1) : ~MatchesAt(re, s, j)
              first == IF re.lead = {} THEN i ELSE i + 1
         IN Some(SubSeq(s, i, DigitRunEnd(s, first)))
    ELSE None

\* String.prototype.replace with a global regex that matches the literal pat
RECURSIVE replace(_, _, _)
replace(s, pat, rep) ==
  IF s = <<>> THEN <<>>
  ELSE IF startsWith(s, pat)
    THEN rep \o replace(SubSeq(s, Len(pat) + 1, Len(s)), pat, rep)
    ELSE <<s[1]>> \o replace(Tail(s), pat, rep)

(***************************************************************************)
(* path                                                                    *)
(***************************************************************************)
DotDot == <<".", ".">>

\* path.join(p, name) for an absolute path p and one component (or '..', '')
join(p, name) ==
  IF name = <<>> THEN p
  ELSE IF name = DotDot THEN (IF p = <<>> THEN <<>> ELSE SubSeq(p, 1, Len(p) - 1))
  ELSE Append(p, name)

basename(p) == IF p = <<>> THEN <<>> ELSE p[Len(p)]

dirname(p) == IF p = <<>> THEN <<>> ELSE SubSeq(p, 1, Len(p) - 1)

\* the path as the string the program holds
RECURSIVE PathString(_)
PathString(p) ==
  IF p = <<>> THEN <<"/">>
  ELSE IF Len(p) = 1 THEN <<"/">> \o p[1]
  ELSE PathString(SubSeq(p, 1, Len(p) - 1)) \o <<"/">> \o p[Len(p)]

\* path.extname of a file name
extname(fileName) ==
  LET dots == {i \in 2..Len(fileName) : fileName[i] = "."}
  IN IF dots = {} THEN <<>>
     ELSE LET d == CHOOSE i \in dots : \A j \in dots : j <= i
          IN SubSeq(fileName, d, Len(fileName))

(***************************************************************************)
(* Episode naming (lines 1861-2013)                                        *)
(***************************************************************************)
twoZero(input) ==
  IF input < 10 THEN <<"0">> \o NumToStr(input) ELSE NumToStr(input)

threeZero(input) ==
  IF input < 100 THEN <<"0">> \o twoZero(input) ELSE NumToStr(input)

\* the padding with 3 digits only above 100 episodes
generateEpisodeNumberAbove100(episodeNumber, episodesInSeason) ==
  IF episodesInSeason <= 100 THEN twoZero(episodeNumber) ELSE threeZero(episodeNumber)

generateEpisodeNumber(episodeNumber, episodesInSeason) ==
  IF episodesInSeason < 100 THEN twoZero(episodeNumber) ELSE threeZero(episodeNumber)

\* the loop over episodeReplaces without its last entry
RECURSIVE ApplyReplacesButLast(_, _)
ApplyReplacesButLast(s, i) ==
  IF i >= Len(episodeReplaces) THEN s
  ELSE ApplyReplacesButLast(replace(s, episodeReplaces[i].regex, episodeReplaces[i].replacement), i + 1)

\* the loop over episodeReplaces, from entry i on
RECURSIVE ApplyReplaces(_, _)
ApplyReplaces(s, i) ==
  IF i > Len(episodeReplaces) THEN s
  ELSE ApplyReplaces(replace(s, episodeReplaces[i].regex, episodeReplaces[i].replacement), i + 1)

\* the file name without the dot in front of the episode title
generateEpisodeFileNameNoDot(fileExtension, seriesName, seasonNumber, episodeName, episodeNumber, episodesInSeason) ==
  ApplyReplaces(seriesName \o <<".", "S">> \o twoZero(seasonNumber) \o <<"E">>
                  \o generateEpisodeNumber(episodeNumber, episodesInSeason)
                  \o episodeName \o fileExtension, 1)

generateEpisodeFileName(fileExtension, seriesName, seasonNumber, episodeName, episodeNumber, episodesInSeason) ==
  ApplyReplaces(seriesName \o <<".", "S">> \o twoZero(seasonNumber) \o <<"E">>
                  \o generateEpisodeNumber(episodeNumber, episodesInSeason)
                  \o <<".">> \o episodeName \o fileExtension, 1)

\* the unchanged mapping with the rename flag set
unchangedEpisodeMappingFlagged(seasonFolder, seasonNumber, fileName) ==
  [ name |-> fileName,
    value |-> [ originalPath |-> join(seasonFolder, fileName),
                updatedPath |-> join(seasonFolder, fileName),
                episode |-> None,
                rename |-> TRUE,
                episodeNumber |-> None,
                seasonNumber |-> seasonNumber,
                seasonFolder |-> seasonFolder ] ]

unchangedEpisodeMapping(seasonFolder, seasonNumber, fileName) ==
  [ name |-> fileName,
    value |-> [ originalPath |-> join(seasonFolder, fileName),
                updatedPath |-> join(seasonFolder, fileName),
                episode |-> None,
                rename |-> FALSE,
                episodeNumber |-> None,
                seasonNumber |-> seasonNumber,
                seasonFolder |-> seasonFolder ] ]

\* the loop run over episodeRegexes from the last entry to the first
RECURSIVE parseEpisodeNumberLastFirst(_, _)
parseEpisodeNumberLastFirst(fileName, i) ==
  IF i > Len(episodeRegexes) THEN None
  ELSE LET entry == episodeRegexes[Len(episodeRegexes) + 1 - i]
           episodeNumberMatch == match(fileName, entry)
       IN IF episodeNumberMatch # None
            THEN Some(parseInt(SubSeq(episodeNumberMatch[1], entry.numberStart + 1,
                                      Len(episodeNumberMatch[1]))))
            ELSE parseEpisodeNumberLastFirst(fileName, i + 1)

\* the loop over episodeRegexes, from entry i on: the number of the first
\* regex that matches, None when none does
RECURSIVE parseEpisodeNumber(_, _)
parseEpisodeNumber(fileName, i) ==
  IF i > Len(episodeRegexes) THEN None
  ELSE LET episodeNumberMatch == match(fileName, episodeRegexes[i])
       IN IF episodeNumberMatch # None
            THEN Some(parseInt(SubSeq(episodeNumberMatch[1],
                                      episodeRegexes[i].numberStart + 1,
                                      Len(episodeNumberMatch[1]))))
            ELSE parseEpisodeNumber(fileName, i + 1)

\* the mapping of a file when a forced episode number is looked up whatever
\* the extension is
generateEpisodeNameForcedFirst(seriesName, seasonFolder, seasonNumber, fileName, episodesInSeason, forceEpisodeNumber) ==
  LET fileExtension == toLowerCase(extname(fileName))
      fileIsVideo == fileExtension \in videoFileExtensions
      episodeNumber == IF forceEpisodeNumber # None THEN forceEpisodeNumber
                       ELSE parseEpisodeNumber(fileName, 1)
      Numbered(e) == e.airedEpisodeNumber = episodeNumber[1]
      found == SelectSeq(episodesInSeason, Numbered)
      episode == IF found = <<>> THEN None ELSE Some(found[1])
  IN IF ~fileIsVideo /\ forceEpisodeNumber = None
       THEN unchangedEpisodeMapping(seasonFolder, seasonNumber, fileName)
     ELSE IF episodeNumber = None
       THEN unchangedEpisodeMapping(seasonFolder, seasonNumber, fileName)
     ELSE IF episode = None
       THEN unchangedEpisodeMapping(seasonFolder, seasonNumber, fileName)
     ELSE LET prefixedEpisodeNumber ==
                generateEpisodeNumber(episodeNumber[1], Len(episodesInSeason))
              sanatizedName ==
                generateEpisodeFileName(fileExtension, seriesName, episode[1].airedSeason,
                                        episode[1].episodeName,
                                        episode[1].airedEpisodeNumber,
                                        Len(episodesInSeason))
          IN [ name |-> sanatizedName,
               value |-> [ originalPath |-> join(seasonFolder, fileName),
                           updatedPath |-> join(seasonFolder, sanatizedName),
                           episode |-> episode,
                           rename |-> fileName # sanatizedName,
                           episodeNumber |-> Some(prefixedEpisodeNumber),
                           seasonNumber |-> seasonNumber,
                           seasonFolder |-> seasonFolder ] ]

\* the EpisodeMapping of one file; its message (display text) is left out
generateEpisodeName(seriesName, seasonFolder, seasonNumber, fileName, episodesInSeason, forceEpisodeNumber) ==
  LET fileExtension == toLowerCase(extname(fileName))
      fileIsVideo == fileExtension \in videoFileExtensions
      episodeNumber == IF forceEpisodeNumber # None THEN forceEpisodeNumber
                       ELSE parseEpisodeNumber(fileName, 1)
      Numbered(e) == e.airedEpisodeNumber = episodeNumber[1]
      found == SelectSeq(episodesInSeason, Numbered)
      episode == IF found = <<>> THEN None ELSE Some(found[1])
  IN IF ~fileIsVideo THEN unchangedEpisodeMapping(seasonFolder, seasonNumber, fileName)
     ELSE IF episodeNumber = None
       THEN unchangedEpisodeMapping(seasonFolder, seasonNumber, fileName)
     ELSE IF episode = None
       THEN unchangedEpisodeMapping(seasonFolder, seasonNumber, fileName)
     ELSE LET prefixedEpisodeNumber ==
                generateEpisodeNumber(episodeNumber[1], Len(episodesInSeason))
              sanatizedName ==
                generateEpisodeFileName(fileExtension, seriesName, episode[1].airedSeason,
                                        episode[1].episodeName,
                                        episode[1].airedEpisodeNumber,
                                        Len(episodesInSeason))
          IN [ name |-> sanatizedName,
               value |-> [ originalPath |-> join(seasonFolder, fileName),
                           updatedPath |-> join(seasonFolder, sanatizedName),
                           episode |-> episode,
                           rename |-> fileName # sanatizedName,
                           episodeNumber |-> Some(prefixedEpisodeNumber),
                           seasonNumber |-> seasonNumber,
                           seasonFolder |-> seasonFolder ] ]

\* the comparator with the two results for a missing episode exchanged
sortEpisodeMappingsUnmatchedFirst(episodeMapping1, episodeMapping2) ==
  LET episode1 == IF episodeMapping1.value.episode # None
                    THEN Some(episodeMapping1.value.episode[1].airedEpisodeNumber) ELSE None
      episode2 == IF episodeMapping2.value.episode # None
                    THEN Some(episodeMapping2.value.episode[1].airedEpisodeNumber) ELSE None
  IN IF episode1 = episode2 THEN 0
     ELSE IF episode1 = None THEN -1
     ELSE IF episode2 = None THEN 1
     ELSE episode1[1] - episode2[1]

\* the comparator: negative, zero or positive
sortEpisodeMappings(episodeMapping1, episodeMapping2) ==
  LET episode1 == IF episodeMapping1.value.episode # None
                    THEN Some(episodeMapping1.value.episode[1].airedEpisodeNumber) ELSE None
      episode2 == IF episodeMapping2.value.episode # None
                    THEN Some(episodeMapping2.value.episode[1].airedEpisodeNumber) ELSE None
  IN IF episode1 = episode2 THEN 0
     ELSE IF episode1 = None THEN 1
     ELSE IF episode2 = None THEN -1
     ELSE episode1[1] - episode2[1]

\* Array.prototype.sort(sortEpisodeMappings): a stable sort (insertion of
\* each element behind the elements that do not compare greater)
RECURSIVE InsertMapping(_, _)
InsertMapping(sorted, x) ==
  IF sorted = <<>> THEN <<x>>
  ELSE IF sortEpisodeMappings(sorted[Len(sorted)], x) <= 0 THEN Append(sorted, x)
  ELSE Append(InsertMapping(SubSeq(sorted, 1, Len(sorted) - 1), x), sorted[Len(sorted)])

RECURSIVE SortFrom(_, _)
SortFrom(sorted, rest) ==
  IF rest = <<>> THEN sorted ELSE SortFrom(InsertMapping(sorted, rest[1]), Tail(rest))

sort(episodeMappings) == SortFrom(<<>>, episodeMappings)

(***************************************************************************)
(* The file store: fs.dirs and fs.files are the sets of existing paths.    *)
(* readdir lists in ascending name order.                                  *)
(***************************************************************************)
IsPrefix(p, q) == Len(p) <= Len(q) /\ SubSeq(q, 1, Len(p)) = p

Entries(f) == f.dirs \cup f.files

\* fsPromises.readdir: None when it fails, otherwise Some(the names)
readdir(f, dir) ==
  IF dir \notin f.dirs THEN None
  ELSE Some(SortStrings({basename(q) : q \in {e \in Entries(f) : e # <<>> /\ dirname(e) = dir}}))

\* the entries of a store on which fsPromises.stat fails (a store that names
\* none has none)
NoStat(f) == IF "noStat" \in DOMAIN f THEN f.noStat ELSE {}

\* isFolder: a failing stat counts as "not a folder"
isFolder(f, folderPath) == folderPath \in f.dirs /\ folderPath \notin NoStat(f)

getFolderNames(f, basePath) ==
  LET currentFolderItems == readdir(f, basePath)
      Keep(itemName) == isFolder(f, join(basePath, itemName))
  IN IF currentFolderItems = None THEN None
     ELSE Some(SelectSeq(currentFolderItems[1], Keep))

\* a file filter that keeps the folders
getFileNamesKeepingFolders(f, basePath) ==
  LET currentFolderItems == readdir(f, basePath)
      Keep(itemName) == isFolder(f, join(basePath, itemName))
  IN IF currentFolderItems = None THEN None
     ELSE Some(SelectSeq(currentFolderItems[1], Keep))

getFileNames(f, basePath) ==
  LET currentFolderItems == readdir(f, basePath)
      Keep(itemName) == ~isFolder(f, join(basePath, itemName))
  IN IF currentFolderItems = None THEN None
     ELSE Some(SelectSeq(currentFolderItems[1], Keep))

RECURSIVE Flat(_)
Flat(qq) == IF qq = <<>> THEN <<>> ELSE qq[1] \o Flat(Tail(qq))

\* a flattening that does not descend into the folders
FilesUnderOneLevel(f, folderPath) ==
  LET files == getFileNames(f, folderPath)[1]
  IN [i \in 1..Len(files) |-> join(folderPath, files[i])]

\* the files at any depth under folderPath (an existing directory): its own
\* files first, then those of its subfolders
RECURSIVE FilesUnder(_, _)
FilesUnder(f, folderPath) ==
  LET files == getFileNames(f, folderPath)[1]
      folders == getFolderNames(f, folderPath)[1]
  IN [i \in 1..Len(files) |-> join(folderPath, files[i])]
     \o Flat([i \in 1..Len(folders) |-> FilesUnder(f, join(folderPath, folders[i]))])

getAllFilesInFolder(f, folderPath) ==
  IF folderPath \notin f.dirs THEN None ELSE Some(FilesUnder(f, folderPath))

\* can fsPromises.rename(oldPath, newPath) succeed (POSIX rename)
CanRename(f, oldPath, newPath) ==
  /\ oldPath \in Entries(f) /\ oldPath # <<>> /\ newPath # <<>>
  /\ dirname(newPath) \in f.dirs
  /\ \/ oldPath = newPath
     \/ /\ oldPath \in f.files
        /\ newPath \notin f.dirs
     \/ /\ oldPath \in f.dirs
        /\ ~IsPrefix(oldPath, newPath)
        /\ newPath \notin f.files
        /\ \A e \in Entries(f) : ~(IsPrefix(newPath, e) /\ e # newPath)

Moved(oldPath, newPath, e) == newPath \o SubSeq(e, Len(oldPath) + 1, Len(e))

\* the file store after a successful rename: a file replaces the file at
\* newPath, a directory moves with everything under it
Renamed(f, oldPath, newPath) ==
  IF oldPath = newPath THEN f
  ELSE [ dirs |-> {e \in f.dirs : ~IsPrefix(oldPath, e)}
                    \cup {Moved(oldPath, newPath, e) : e \in {d \in f.dirs : IsPrefix(oldPath, d)}},
         files |-> {e \in f.files : ~IsPrefix(oldPath, e)}
                    \cup {Moved(oldPath, newPath, e) : e \in {d \in f.files : IsPrefix(oldPath, d)}} ]

CanMkdir(f, dir) == dir \notin Entries(f) /\ dirname(dir) \in f.dirs

Mkdir(f, dir) == [f EXCEPT !.dirs = @ \cup {dir}]

\* rimraf: the path and everything under it is gone (the root cannot go)
Rimraf(f, target) ==
  IF target = <<>> THEN f
  ELSE [ dirs |-> {e \in f.dirs : ~IsPrefix(target, e)},
         files |-> {e \in f.files : ~IsPrefix(target, e)} ]

CanUnlink(f, file) == file \in f.files

Unlink(f, file) == [f EXCEPT !.files = @ \ {file}]

(***************************************************************************)
(* Bounds and the environment of a run                                     *)
(***************************************************************************)
\* asynchronous calls (file store, metadata provider) in flight at once
MaxInFlight == 2
\* prompts awaiting input at once
MaxLive == 2
\* keys and lines the user enters in one run
MaxInputs == 6

Str_tv == <<"t", "v">>
Str_S1 == <<"S", "1">>
Str_A == <<"A">>
Str_bmkv == <<"b", ".", "m", "k", "v">>
Str_e1mkv == <<"e", "1", ".", "m", "k", "v">>
Str_ntxt == <<"n", ".", "t", "x", "t">>
Str_Show == <<"S", "h", "o", "w">>
Str_Pilot == <<"P", "i", "l", "o", "t">>
Str_SecondEpisode == <<"S", "e", "c", "o", "n", "d", " ", "E", "p", "i", "s", "o", "d", "e">>

\* process.cwd() when the program starts
StartDirectory == <<Str_tv>>

\* the file store when the program starts: /tv/S1 holds a video without a
\* number, the video of episode 1 and a text file
InitialFs ==
  [ dirs |-> {<<>>, <<Str_tv>>, <<Str_tv, Str_S1>>},
    files |-> {<<Str_tv, Str_S1, Str_bmkv>>, <<Str_tv, Str_S1, Str_e1mkv>>,
               <<Str_tv, Str_S1, Str_ntxt>>} ]

\* what the user may type into the rename and the create-folder prompt
NameInputs == {Str_A}
\* what the user may type into the series-name prompt
SeriesNameInputs == {Str_Show}

\* the metadata provider's data: tvdb.getLanguages(), getSeriesByName(),
\* getSeriesAllById()
Languages == <<[id |-> 14, abbreviation |-> "de", englishName |-> "German"]>>

SearchResults == <<[id |-> 1, seriesName |-> Str_Show]>>

SeriesDetails(seriesId) ==
  [ id |-> seriesId, seriesName |-> Str_Show,
    episodes |-> << [id |-> 21, airedSeason |-> 2, airedEpisodeNumber |-> 1,
                     episodeName |-> Str_A],
                    [id |-> 11, airedSeason |-> 1, airedEpisodeNumber |-> 1,
                     episodeName |-> Str_Pilot],
                    [id |-> 12, airedSeason |-> 1, airedEpisodeNumber |-> 2,
                     episodeName |-> Str_SecondEpisode] >> ]

(***************************************************************************)
(* State                                                                   *)
(***************************************************************************)
VARIABLES
  currentDirectory,         \* this.currentDirectory
  highlightedFolder,        \* this.highlightedFolder
  currentPrompt,            \* this.currentPrompt
  prompts,                  \* the ten prompt fields: None or Some(prompt)
  live,                     \* the prompts that await input (run, not closed)
  currentFolderToMove,      \* None or Some(path)
  currentMoveTarget,        \* None or Some(path)
  currentSeriesDirectory,   \* None or Some(path)
  currentSeriesLanguage,    \* None or Some(language)
  currentSeriesName,        \* None or Some(string)
  currentSeries,            \* None or Some(series)
  currentEpisodeRenames,    \* None or Some(SeasonMapping)
  currentEpisodeAssign,     \* None or Some(EpisodeMapping)
  fs,                       \* the file store
  tasks,                    \* the asynchronous calls in flight, oldest first
  crashed,                  \* the process died of an uncaught exception
  inputs,                   \* the number of keys and lines the user still enters
  fileNameInput,            \* the parser's input (parser specification)
  episodeNumberOutput,      \* None, or Some(the parser's result)
  unitInput,                \* the call of a naming function (naming specification)
  unitOutput,               \* None, or Some(what the call returned)
  consoleLog                \* None, or Some(what console.log wrote last)

navVars == <<currentDirectory, highlightedFolder>>
moveVars == <<currentFolderToMove, currentMoveTarget>>
seriesVars == <<currentSeriesDirectory, currentSeriesLanguage, currentSeriesName,
                currentSeries, currentEpisodeRenames, currentEpisodeAssign>>
unitVars == <<fileNameInput, episodeNumberOutput, unitInput, unitOutput>>
parserVars == <<fileNameInput, episodeNumberOutput, unitInput, unitOutput, consoleLog>>
envVars == <<inputs, fileNameInput, episodeNumberOutput, unitInput, unitOutput, consoleLog>>
vars == <<currentDirectory, highlightedFolder, currentPrompt, prompts, live,
          currentFolderToMove, currentMoveTarget, currentSeriesDirectory,
          currentSeriesLanguage, currentSeriesName, currentSeries,
          currentEpisodeRenames, currentEpisodeAssign, fs, tasks, crashed,
          inputs, fileNameInput, episodeNumberOutput, unitInput, unitOutput, consoleLog>>

\* what console.log writes: the message of promptSeriesSuggestions (1452), a
\* replaced mapping in promptEpisodeAssign (1560), and the count of
\* renameEpisodes (1588)
SeriesNotFoundMessage == [text |-> "Series not found. Did you spell it correctly?"]
MappingMessage == [text |-> "mapping"]
RenamedMessage(renamedFileCount) == [text |-> "renamed files", count |-> renamedFileCount]

\* no naming function is called on its own
NoCall == [fn |-> "none"]

PromptFields == {"filesPrompt", "confirmDeletePrompt", "confirmHoistPrompt",
                 "moveFolderPrompt", "confirmPurgePrompt", "seriesLanguagePrompt",
                 "seriesNamePrompt", "seriesSelectionPrompt", "episodeRenamePrompt",
                 "episodeAssignPrompt"}

\* the task of promptMainMenu: it awaits the listing of this.currentDirectory
MainMenuTask(directory) == [pc |-> "promptMainMenu", directory |-> directory]

\* constructor, then start(): promptMainMenu() runs up to its first await
Init ==
  /\ currentDirectory = StartDirectory
  /\ highlightedFolder = DotDot
  /\ currentPrompt = "folder-selection"
  /\ prompts = [f \in PromptFields |-> None]
  /\ live = {}
  /\ currentFolderToMove = None
  /\ currentMoveTarget = None
  /\ currentSeriesDirectory = None
  /\ currentSeriesLanguage = None
  /\ currentSeriesName = None
  /\ currentSeries = None
  /\ currentEpisodeRenames = None
  /\ currentEpisodeAssign = None
  /\ fs = InitialFs
  /\ tasks = <<MainMenuTask(StartDirectory)>>
  /\ crashed = FALSE
  /\ inputs = MaxInputs
  /\ fileNameInput = <<>>
  /\ episodeNumberOutput = None
  /\ unitInput = NoCall
  /\ unitOutput = None
  /\ consoleLog = None

(***************************************************************************)
(* Prompts and tasks                                                       *)
(***************************************************************************)
UsedIds == {p.id : p \in live}
             \cup {prompts[f][1].id : f \in {g \in PromptFields : prompts[g] # None}}

\* the identity of the next prompt object
NewId == CHOOSE i \in 1..(Cardinality(UsedIds) + 1) :
           i \notin UsedIds /\ \A j \in 1..(i - 1) : j \in UsedIds

\* is the prompt held by a field awaiting input
FieldLive(f) == prompts[f] # None /\ prompts[f][1] \in live

\* prompt.stop() on a field that holds a prompt: it no longer gets keys
Stopped(l, f) == l \ {prompts[f][1]}

RemoveAt(q, i) == SubSeq(q, 1, i - 1) \o SubSeq(q, i + 1, Len(q))

\* the prompts of one kind that await input
LiveOf(kind) == {p \in live : p.kind = kind}

\* the tasks in flight that wait at the await point pc
TasksAt(pc) == {i \in 1..Len(tasks) : tasks[i].pc = pc}

\* an uncaught exception in a key handler ends the process
Crash ==
  /\ crashed' = TRUE
  /\ live' = {}
  /\ tasks' = <<>>

\* a promise rejects and nothing handles it: the process goes on (a warning)
\* or ends, depending on the Node.js version; otherwise l and ts are next
UnhandledRejection(l, ts) ==
  \E dies \in BOOLEAN :
    /\ crashed' = dies
    /\ live' = IF dies THEN {} ELSE l
    /\ tasks' = IF dies THEN <<>> ELSE ts

\* a keypress event is emitted on stdin only while a prompt reads it: each
\* prompt opens stdin when it is run and pauses it when it closes
KeyDelivered ==
  /\ ~crashed
  /\ live # {}
  /\ inputs > 0
  /\ inputs' = inputs - 1

(***************************************************************************)
(* promptMainMenu (1122-1161)                                              *)
(***************************************************************************)
\* the listing arrives: the Select over '..' and the folders (the files are
\* shown disabled) is run
MainMenuListed ==
  \E i \in TasksAt("promptMainMenu") :
    LET task == tasks[i]
        files == getFileNames(fs, task.directory)
        folders == getFolderNames(fs, task.directory)
        prompt == [ kind |-> "folder-selection", id |-> NewId,
                    choices |-> <<DotDot>> \o folders[1] ]
    IN /\ ~crashed
       /\ IF files = None \/ folders = None
            THEN /\ UnhandledRejection(live, RemoveAt(tasks, i))
                 /\ UNCHANGED prompts
            ELSE /\ Cardinality(live) < MaxLive
                 /\ prompts' = [prompts EXCEPT !.filesPrompt = Some(prompt)]
                 /\ live' = live \cup {prompt}
                 /\ tasks' = RemoveAt(tasks, i)
                 /\ UNCHANGED crashed
       /\ UNCHANGED <<navVars, currentPrompt, moveVars, seriesVars, fs, envVars>>

\* enter on an entry of a folder-selection prompt: the directory is entered
SubmitFolderSelection ==
  \E prompt \in LiveOf("folder-selection") : \E selectedFolder \in SeqToSet(prompt.choices) :
    /\ KeyDelivered
    /\ Len(tasks) < MaxInFlight
    /\ highlightedFolder' = IF selectedFolder = DotDot THEN basename(currentDirectory)
                            ELSE DotDot
    /\ currentDirectory' = join(currentDirectory, selectedFolder)
    /\ currentPrompt' = "folder-selection"
    /\ live' = Stopped(live \ {prompt}, "filesPrompt")
    /\ tasks' = Append(tasks, MainMenuTask(currentDirectory'))
    /\ UNCHANGED <<prompts, moveVars, seriesVars, fs, crashed, parserVars>>

\* escape in a folder-selection prompt: run() rejects, promptMainMenu ends
CancelFolderSelection ==
  \E prompt \in LiveOf("folder-selection") :
    /\ KeyDelivered
    /\ UnhandledRejection(live \ {prompt}, tasks)
    /\ UNCHANGED <<navVars, currentPrompt, prompts, moveVars, seriesVars, fs, parserVars>>

(***************************************************************************)
(* handleKeyPress, handleFolderSelectionKeyPress (1658-1731)               *)
(***************************************************************************)
\* the entry the folder-selection prompt has in focus when a key arrives
Focus == IF prompts.filesPrompt = None THEN {}
         ELSE SeqToSet(prompts.filesPrompt[1].choices)

InFolderSelection ==
  /\ KeyDelivered
  /\ currentPrompt = "folder-selection"
  /\ prompts.filesPrompt # None

\* a key the handler has no command for: only the highlight is recorded
KeyOtherInFolderSelection ==
  \E selected \in Focus :
    /\ InFolderSelection
    /\ highlightedFolder' = selected
    /\ UNCHANGED <<currentDirectory, currentPrompt, prompts, live, moveVars, seriesVars,
                   fs, tasks, crashed, parserVars>>

\* 'r': promptRename(selectedFolder) runs an Input
KeyRename ==
  \E selected \in Focus :
    LET filePath == join(currentDirectory, selected)
        renamePrompt == [ kind |-> "rename", id |-> NewId,
                          directory |-> dirname(filePath),
                          filename |-> basename(filePath) ]
    IN /\ InFolderSelection
       /\ Cardinality(Stopped(live, "filesPrompt")) < MaxLive
       /\ highlightedFolder' = selected
       /\ currentPrompt' = "rename"
       /\ live' = Stopped(live, "filesPrompt") \cup {renamePrompt}
       /\ UNCHANGED <<currentDirectory, prompts, moveVars, seriesVars, fs, tasks,
                      crashed, parserVars>>

\* 'c': promptCreateFolder(this.currentDirectory) runs an Input
KeyCreateFolder ==
  \E selected \in Focus :
    LET createFolderPrompt == [ kind |-> "create-folder", id |-> NewId,
                                targetDirectory |-> currentDirectory ]
    IN /\ InFolderSelection
       /\ Cardinality(Stopped(live, "filesPrompt")) < MaxLive
       /\ highlightedFolder' = selected
       /\ currentPrompt' = "create-folder"
       /\ live' = Stopped(live, "filesPrompt") \cup {createFolderPrompt}
       /\ UNCHANGED <<currentDirectory, prompts, moveVars, seriesVars, fs, tasks,
                      crashed, parserVars>>

\* 'd': promptDeleteFolder(selectedFolder) runs a Confirm
KeyDelete ==
  \E selected \in Focus :
    LET confirmDeletePrompt == [ kind |-> "delete-folder", id |-> NewId,
                                 filePath |-> join(currentDirectory, selected) ]
    IN /\ InFolderSelection
       /\ Cardinality(Stopped(live, "filesPrompt")) < MaxLive
       /\ highlightedFolder' = selected
       /\ currentPrompt' = "delete-folder"
       /\ prompts' = [prompts EXCEPT !.confirmDeletePrompt = Some(confirmDeletePrompt)]
       /\ live' = Stopped(live, "filesPrompt") \cup {confirmDeletePrompt}
       /\ UNCHANGED <<currentDirectory, moveVars, seriesVars, fs, tasks, crashed,
                      parserVars>>

\* 'h': hoistFiles(this.currentDirectory) starts collecting the files
KeyHoist ==
  \E selected \in Focus :
    /\ InFolderSelection
    /\ Len(tasks) < MaxInFlight
    /\ highlightedFolder' = selected
    /\ currentPrompt' = "hoist-files"
    /\ live' = Stopped(live, "filesPrompt")
    /\ tasks' = Append(tasks, [pc |-> "hoistFiles", directory |-> currentDirectory])
    /\ UNCHANGED <<currentDirectory, prompts, moveVars, seriesVars, fs, crashed,
                   parserVars>>

\* the task of promptMoveFolder: it awaits the folders of the browsed directory
MoveFolderTask(directory, folderToMove) ==
  [pc |-> "promptMoveFolder", currentDirectory |-> directory, folderToMove |-> folderToMove]

\* 'm': promptMoveFolder(this.currentDirectory, selectedFolder)
KeyMove ==
  \E selected \in Focus :
    LET selectedFolder == join(currentDirectory, selected)
    IN /\ InFolderSelection
       /\ Len(tasks) < MaxInFlight
       /\ highlightedFolder' = selected
       /\ currentPrompt' = "move-folder"
       /\ currentFolderToMove' = Some(selectedFolder)
       /\ live' = Stopped(live, "filesPrompt")
       /\ tasks' = Append(tasks, MoveFolderTask(currentDirectory, selectedFolder))
       /\ UNCHANGED <<currentDirectory, prompts, currentMoveTarget, seriesVars, fs,
                      crashed, parserVars>>

\* 'u': promptMainMenu()
KeyUpdate ==
  \E selected \in Focus :
    /\ InFolderSelection
    /\ Len(tasks) < MaxInFlight
    /\ highlightedFolder' = selected
    /\ live' = Stopped(live, "filesPrompt")
    /\ tasks' = Append(tasks, MainMenuTask(currentDirectory))
    /\ UNCHANGED <<currentDirectory, currentPrompt, prompts, moveVars, seriesVars, fs,
                   crashed, parserVars>>

\* 'p': promptNonVideoPurge(this.currentDirectory) starts collecting the files
KeyPurge ==
  \E selected \in Focus :
    /\ InFolderSelection
    /\ Len(tasks) < MaxInFlight
    /\ highlightedFolder' = selected
    /\ currentPrompt' = "non-video-purge"
    /\ live' = Stopped(live, "filesPrompt")
    /\ tasks' = Append(tasks, [pc |-> "promptNonVideoPurge",
                               folderToPurge |-> currentDirectory])
    /\ UNCHANGED <<currentDirectory, prompts, moveVars, seriesVars, fs, crashed,
                   parserVars>>

\* 'e': the prompt is stopped and nothing else is started
KeyExit ==
  \E selected \in Focus :
    /\ InFolderSelection
    /\ highlightedFolder' = selected
    /\ live' = Stopped(live, "filesPrompt")
    /\ UNCHANGED <<currentDirectory, currentPrompt, prompts, moveVars, seriesVars, fs,
                   tasks, crashed, parserVars>>

\* 's': promptSeriesRename, then promptSeriesLanguage up to getLanguages()
KeySeries ==
  \E selected \in Focus :
    /\ InFolderSelection
    /\ Len(tasks) < MaxInFlight
    /\ highlightedFolder' = selected
    /\ currentPrompt' = "series-language"
    /\ currentSeriesDirectory' = Some(currentDirectory)
    /\ currentEpisodeRenames' = None
    /\ live' = Stopped(live, "filesPrompt")
    /\ tasks' = Append(tasks, [pc |-> "promptSeriesLanguage",
                               seriesDirectory |-> currentDirectory])
    /\ UNCHANGED <<currentDirectory, prompts, moveVars, currentSeriesLanguage,
                   currentSeriesName, currentSeries, currentEpisodeAssign, fs, crashed,
                   parserVars>>

(***************************************************************************)
(* File operations in flight. A batch (Promise.all over the items) is the  *)
(* sequence of its operations not yet finished; the operations of a batch  *)
(* whose Promise.all has already rejected go on as a task of their own.    *)
(***************************************************************************)
RenameOp(from, to) == [op |-> "rename", from |-> from, to |-> to]
UnlinkOp(file) == [op |-> "unlink", from |-> file]
RimrafOp(target) == [op |-> "rimraf", from |-> target]

\* can the operation succeed on file store f
CanDo(f, o) ==
  IF o.op = "rename" THEN CanRename(f, o.from, o.to)
  ELSE IF o.op = "unlink" THEN CanUnlink(f, o.from)
  ELSE TRUE

\* the file store after the operation succeeded
Done(f, o) ==
  IF o.op = "rename" THEN Renamed(f, o.from, o.to)
  ELSE IF o.op = "unlink" THEN Unlink(f, o.from)
  ELSE Rimraf(f, o.from)

\* the outcomes of an operation: it succeeds only if it can, and any
\* operation may fail with an IOError
Outcomes(f, o) == {ok \in BOOLEAN : ok => CanDo(f, o)}

Orphans(pending) == IF pending = <<>> THEN <<>> ELSE <<[pc |-> "orphans", pending |-> pending]>>

\* an operation of a batch nobody awaits any more finishes
OrphanDone ==
  \E i \in TasksAt("orphans") : \E k \in 1..Len(tasks[i].pending) :
    \E ok \in Outcomes(fs, tasks[i].pending[k]) :
      /\ ~crashed
      /\ fs' = IF ok THEN Done(fs, tasks[i].pending[k]) ELSE fs
      /\ tasks' = SubSeq(tasks, 1, i - 1) \o Orphans(RemoveAt(tasks[i].pending, k))
                    \o SubSeq(tasks, i + 1, Len(tasks))
      /\ UNCHANGED <<navVars, currentPrompt, prompts, live, moveVars, seriesVars,
                     crashed, envVars>>

(***************************************************************************)
(* promptRename (1163-1191)                                                *)
(***************************************************************************)
\* enter in the rename Input: the rename is issued
SubmitRename ==
  \E prompt \in LiveOf("rename") : \E newName \in NameInputs :
    /\ KeyDelivered
    /\ Len(tasks) < MaxInFlight
    /\ live' = live \ {prompt}
    /\ tasks' = Append(tasks, [ pc |-> "promptRename",
                                oldPath |-> join(prompt.directory, prompt.filename),
                                newPath |-> join(prompt.directory, newName),
                                newName |-> newName ])
    /\ UNCHANGED <<navVars, currentPrompt, prompts, moveVars, seriesVars, fs, crashed,
                   parserVars>>

\* fsPromises.rename settles; either way promptMainMenu() follows
RenameDone ==
  \E i \in TasksAt("promptRename") :
    \E ok \in Outcomes(fs, RenameOp(tasks[i].oldPath, tasks[i].newPath)) :
      /\ ~crashed
      /\ fs' = IF ok THEN Renamed(fs, tasks[i].oldPath, tasks[i].newPath) ELSE fs
      /\ highlightedFolder' = IF ok THEN tasks[i].newName ELSE highlightedFolder
      /\ currentPrompt' = "folder-selection"
      /\ tasks' = Append(RemoveAt(tasks, i), MainMenuTask(currentDirectory))
      /\ UNCHANGED <<currentDirectory, prompts, live, moveVars, seriesVars, crashed,
                     envVars>>

\* escape in the rename Input
CancelRename ==
  \E prompt \in LiveOf("rename") :
    /\ KeyDelivered
    /\ Len(tasks) < MaxInFlight
    /\ live' = live \ {prompt}
    /\ currentPrompt' = "folder-selection"
    /\ tasks' = Append(tasks, MainMenuTask(currentDirectory))
    /\ UNCHANGED <<navVars, prompts, moveVars, seriesVars, fs, crashed, parserVars>>

(***************************************************************************)
(* promptCreateFolder (1193-1215)                                          *)
(***************************************************************************)
SubmitCreateFolder ==
  \E prompt \in LiveOf("create-folder") : \E folderName \in NameInputs :
    /\ KeyDelivered
    /\ Len(tasks) < MaxInFlight
    /\ live' = live \ {prompt}
    /\ tasks' = Append(tasks, [ pc |-> "promptCreateFolder",
                                path |-> join(prompt.targetDirectory, folderName),
                                folderName |-> folderName ])
    /\ UNCHANGED <<navVars, currentPrompt, prompts, moveVars, seriesVars, fs, crashed,
                   parserVars>>

\* fsPromises.mkdir settles; either way promptMainMenu() follows
CreateFolderDone ==
  \E i \in TasksAt("promptCreateFolder") : \E ok \in BOOLEAN :
    /\ ~crashed
    /\ ok => CanMkdir(fs, tasks[i].path)
    /\ fs' = IF ok THEN Mkdir(fs, tasks[i].path) ELSE fs
    /\ highlightedFolder' = IF ok THEN tasks[i].folderName ELSE highlightedFolder
    /\ currentPrompt' = "folder-selection"
    /\ tasks' = Append(RemoveAt(tasks, i), MainMenuTask(currentDirectory))
    /\ UNCHANGED <<currentDirectory, prompts, live, moveVars, seriesVars, crashed,
                   envVars>>

CancelCreateFolder ==
  \E prompt \in LiveOf("create-folder") :
    /\ KeyDelivered
    /\ Len(tasks) < MaxInFlight
    /\ live' = live \ {prompt}
    /\ currentPrompt' = "folder-selection"
    /\ tasks' = Append(tasks, MainMenuTask(currentDirectory))
    /\ UNCHANGED <<navVars, prompts, moveVars, seriesVars, fs, crashed, parserVars>>

(***************************************************************************)
(* promptDeleteFolder (1217-1242)                                          *)
(***************************************************************************)
\* y or n in the delete Confirm: rimraf is started, or promptMainMenu()
AnswerDelete ==
  \E prompt \in LiveOf("delete-folder") : \E userAgreed \in BOOLEAN :
    /\ KeyDelivered
    /\ Len(tasks) < MaxInFlight
    /\ live' = Stopped(live \ {prompt}, "confirmDeletePrompt")
    /\ IF userAgreed
         THEN /\ tasks' = Append(tasks, [pc |-> "promptDeleteFolder",
                                         filePath |-> prompt.filePath])
              /\ UNCHANGED currentPrompt
         ELSE /\ tasks' = Append(tasks, MainMenuTask(currentDirectory))
              /\ currentPrompt' = "folder-selection"
    /\ UNCHANGED <<navVars, prompts, moveVars, seriesVars, fs, crashed, parserVars>>

\* rimraf calls back (its error, if any, is dropped)
DeleteDone ==
  \E i \in TasksAt("promptDeleteFolder") : \E ok \in BOOLEAN :
    /\ ~crashed
    /\ fs' = IF ok THEN Rimraf(fs, tasks[i].filePath) ELSE fs
    /\ highlightedFolder' = DotDot
    /\ currentPrompt' = "folder-selection"
    /\ tasks' = Append(RemoveAt(tasks, i), MainMenuTask(currentDirectory))
    /\ UNCHANGED <<currentDirectory, prompts, live, moveVars, seriesVars, crashed,
                   envVars>>

\* escape in the delete Confirm
CancelDelete ==
  \E prompt \in LiveOf("delete-folder") :
    /\ KeyDelivered
    /\ Len(tasks) < MaxInFlight
    /\ live' = Stopped(live \ {prompt}, "confirmDeletePrompt")
    /\ currentPrompt' = "folder-selection"
    /\ tasks' = Append(tasks, MainMenuTask(currentDirectory))
    /\ UNCHANGED <<navVars, prompts, moveVars, seriesVars, fs, crashed, parserVars>>

(***************************************************************************)
(* hoistFiles (1244-1284), handleHoistFilesKeyPress (1744-1750)            *)
(***************************************************************************)
\* the renames of a confirmed hoist: a file already in the directory has none
HoistMoves(directory, files) ==
  LET Moves(filePath) == filePath # join(directory, basename(filePath))
      moving == SelectSeq(files, Moves)
  IN [k \in 1..Len(moving) |-> RenameOp(moving[k], join(directory, basename(moving[k])))]

\* the files are collected: the Confirm is run
HoistListed ==
  \E i \in TasksAt("hoistFiles") :
    LET files == getAllFilesInFolder(fs, tasks[i].directory)
        confirmHoistPrompt == [ kind |-> "hoist-files", id |-> NewId,
                                directory |-> tasks[i].directory, files |-> files[1] ]
    IN /\ ~crashed
       /\ IF files = None
            THEN /\ UnhandledRejection(live, RemoveAt(tasks, i))
                 /\ UNCHANGED prompts
            ELSE /\ Cardinality(live) < MaxLive
                 /\ prompts' = [prompts EXCEPT !.confirmHoistPrompt = Some(confirmHoistPrompt)]
                 /\ live' = live \cup {confirmHoistPrompt}
                 /\ tasks' = RemoveAt(tasks, i)
                 /\ UNCHANGED crashed
       /\ UNCHANGED <<navVars, currentPrompt, moveVars, seriesVars, fs, envVars>>

\* y or n in the hoist Confirm: all renames are issued at once
AnswerHoist ==
  \E prompt \in LiveOf("hoist-files") : \E userAgreed \in BOOLEAN :
    LET moves == HoistMoves(prompt.directory, prompt.files)
    IN /\ KeyDelivered
       /\ Len(tasks) < MaxInFlight
       /\ live' = Stopped(live \ {prompt}, "confirmHoistPrompt")
       /\ IF ~userAgreed
            THEN /\ tasks' = Append(tasks, MainMenuTask(currentDirectory))
                 /\ currentPrompt' = "folder-selection"
            ELSE /\ tasks' = Append(tasks,
                       IF moves = <<>>
                         THEN [pc |-> "hoistFiles.folders", directory |-> prompt.directory,
                               files |-> prompt.files]
                         ELSE [pc |-> "hoistFiles.moves", directory |-> prompt.directory,
                               files |-> prompt.files, pending |-> moves])
                 /\ UNCHANGED currentPrompt
       /\ UNCHANGED <<navVars, prompts, moveVars, seriesVars, fs, crashed, parserVars>>

\* the hoist waits for every rename and then goes on, whether they succeeded
\* or not
HoistMoveDoneGoingOn ==
  \E i \in TasksAt("hoistFiles.moves") : \E k \in 1..Len(tasks[i].pending) :
    \E ok \in Outcomes(fs, tasks[i].pending[k]) :
      LET rest == RemoveAt(tasks[i].pending, k)
      IN /\ ~crashed
         /\ fs' = IF ok THEN Done(fs, tasks[i].pending[k]) ELSE fs
         /\ tasks' = [tasks EXCEPT ![i] =
                        IF rest = <<>>
                          THEN [pc |-> "hoistFiles.folders", directory |-> tasks[i].directory,
                                files |-> tasks[i].files]
                          ELSE [@ EXCEPT !.pending = rest]]
         /\ UNCHANGED <<navVars, currentPrompt, prompts, live, moveVars, seriesVars,
                        crashed, envVars>>

\* one rename of the hoist settles: the last success goes on to list the
\* folders; the first failure rejects the Promise.all, the catch block runs
\* promptMainMenu() and the other renames stay in flight
HoistMoveDone ==
  \E i \in TasksAt("hoistFiles.moves") : \E k \in 1..Len(tasks[i].pending) :
    \E ok \in Outcomes(fs, tasks[i].pending[k]) :
      LET rest == RemoveAt(tasks[i].pending, k)
      IN /\ ~crashed
         /\ fs' = IF ok THEN Done(fs, tasks[i].pending[k]) ELSE fs
         /\ IF ok
              THEN /\ tasks' = [tasks EXCEPT ![i] =
                          IF rest = <<>>
                            THEN [pc |-> "hoistFiles.folders", directory |-> tasks[i].directory,
                                  files |-> tasks[i].files]
                            ELSE [@ EXCEPT !.pending = rest]]
                   /\ UNCHANGED <<live, currentPrompt>>
              ELSE /\ Len(tasks) + Len(Orphans(rest)) <= MaxInFlight
                   /\ tasks' = RemoveAt(tasks, i) \o Orphans(rest)
                                 \o <<MainMenuTask(currentDirectory)>>
                   /\ live' = Stopped(live, "confirmHoistPrompt")
                   /\ currentPrompt' = "folder-selection"
         /\ UNCHANGED <<navVars, prompts, moveVars, seriesVars, crashed, envVars>>

\* the remaining folders are listed: a rimraf is started for each
HoistFoldersListed ==
  \E i \in TasksAt("hoistFiles.folders") :
    LET directory == tasks[i].directory
        remainingFolders == getFolderNames(fs, directory)
        rimrafs == [k \in 1..Len(remainingFolders[1]) |->
                      RimrafOp(join(directory, remainingFolders[1][k]))]
    IN /\ ~crashed
       /\ IF remainingFolders = None
            THEN /\ tasks' = Append(RemoveAt(tasks, i), MainMenuTask(currentDirectory))
                 /\ live' = Stopped(live, "confirmHoistPrompt")
                 /\ currentPrompt' = "folder-selection"
                 /\ UNCHANGED highlightedFolder
            ELSE IF rimrafs = <<>>
              THEN /\ tasks' = Append(RemoveAt(tasks, i), MainMenuTask(currentDirectory))
                   /\ highlightedFolder' = DotDot
                   /\ currentPrompt' = "folder-selection"
                   /\ UNCHANGED live
              ELSE /\ tasks' = [tasks EXCEPT ![i] =
                          [pc |-> "hoistFiles.rimraf", directory |-> directory,
                           files |-> tasks[i].files, pending |-> rimrafs]]
                   /\ UNCHANGED <<highlightedFolder, currentPrompt, live>>
       /\ UNCHANGED <<currentDirectory, prompts, moveVars, seriesVars, fs, crashed,
                      envVars>>

\* one rimraf of the hoist calls back; after the last, promptMainMenu()
HoistRimrafDone ==
  \E i \in TasksAt("hoistFiles.rimraf") : \E k \in 1..Len(tasks[i].pending) :
    \E ok \in BOOLEAN :
      LET rest == RemoveAt(tasks[i].pending, k)
      IN /\ ~crashed
         /\ fs' = IF ok THEN Done(fs, tasks[i].pending[k]) ELSE fs
         /\ IF rest = <<>>
              THEN /\ tasks' = Append(RemoveAt(tasks, i), MainMenuTask(currentDirectory))
                   /\ highlightedFolder' = DotDot
                   /\ currentPrompt' = "folder-selection"
              ELSE /\ tasks' = [tasks EXCEPT ![i].pending = rest]
                   /\ UNCHANGED <<highlightedFolder, currentPrompt>>
         /\ UNCHANGED <<currentDirectory, prompts, live, moveVars, seriesVars, crashed,
                        envVars>>

\* escape in the hoist Confirm
CancelHoist ==
  \E prompt \in LiveOf("hoist-files") :
    /\ KeyDelivered
    /\ Len(tasks) < MaxInFlight
    /\ live' = Stopped(live \ {prompt}, "confirmHoistPrompt")
    /\ currentPrompt' = "folder-selection"
    /\ tasks' = Append(tasks, MainMenuTask(currentDirectory))
    /\ UNCHANGED <<navVars, prompts, moveVars, seriesVars, fs, crashed, parserVars>>

\* backspace while currentPrompt is hoist-files
BackspaceHoist ==
  /\ KeyDelivered
  /\ currentPrompt = "hoist-files"
  /\ prompts.confirmHoistPrompt # None
  /\ Len(tasks) < MaxInFlight
  /\ live' = Stopped(live, "confirmHoistPrompt")
  /\ currentPrompt' = "folder-selection"
  /\ tasks' = Append(tasks, MainMenuTask(currentDirectory))
  /\ UNCHANGED <<navVars, prompts, moveVars, seriesVars, fs, crashed, parserVars>>

(***************************************************************************)
(* promptNonVideoPurge (1347-1378), handleNonVideoPurgeKeyPress (1752-1758)*)
(***************************************************************************)
\* a video test that compares the extension as it is written
IsVideoAsWritten(filePath) == extname(basename(filePath)) \in videoFileExtensions

IsVideo(filePath) == toLowerCase(extname(basename(filePath))) \in videoFileExtensions

\* the files are collected: the Confirm over the non-video files is run
PurgeListed ==
  \E i \in TasksAt("promptNonVideoPurge") :
    LET files == getAllFilesInFolder(fs, tasks[i].folderToPurge)
        NotVideo(filename) == ~IsVideo(filename)
        confirmPurgePrompt == [ kind |-> "non-video-purge", id |-> NewId,
                                folderToPurge |-> tasks[i].folderToPurge,
                                nonVideoFiles |-> SelectSeq(files[1], NotVideo) ]
    IN /\ ~crashed
       /\ IF files = None
            THEN /\ UnhandledRejection(live, RemoveAt(tasks, i))
                 /\ UNCHANGED prompts
            ELSE /\ Cardinality(live) < MaxLive
                 /\ prompts' = [prompts EXCEPT !.confirmPurgePrompt = Some(confirmPurgePrompt)]
                 /\ live' = live \cup {confirmPurgePrompt}
                 /\ tasks' = RemoveAt(tasks, i)
                 /\ UNCHANGED crashed
       /\ UNCHANGED <<navVars, currentPrompt, moveVars, seriesVars, fs, envVars>>

\* y or n in the purge Confirm: all unlinks are issued at once
AnswerPurge ==
  \E prompt \in LiveOf("non-video-purge") : \E userAgreed \in BOOLEAN :
    LET unlinks == [k \in 1..Len(prompt.nonVideoFiles) |-> UnlinkOp(prompt.nonVideoFiles[k])]
    IN /\ KeyDelivered
       /\ Len(tasks) < MaxInFlight
       /\ live' = Stopped(live \ {prompt}, "confirmPurgePrompt")
       /\ IF userAgreed /\ unlinks # <<>>
            THEN /\ tasks' = Append(tasks, [pc |-> "promptNonVideoPurge.unlinks",
                                            folderToPurge |-> prompt.folderToPurge,
                                            pending |-> unlinks])
                 /\ UNCHANGED currentPrompt
            ELSE /\ tasks' = Append(tasks, MainMenuTask(currentDirectory))
                 /\ currentPrompt' = "folder-selection"
       /\ UNCHANGED <<navVars, prompts, moveVars, seriesVars, fs, crashed, parserVars>>

\* one unlink of the purge settles: after the last success, or at the first
\* failure (the others stay in flight), promptMainMenu() is called
PurgeUnlinkDone ==
  \E i \in TasksAt("promptNonVideoPurge.unlinks") : \E k \in 1..Len(tasks[i].pending) :
    \E ok \in Outcomes(fs, tasks[i].pending[k]) :
      LET rest == RemoveAt(tasks[i].pending, k)
      IN /\ ~crashed
         /\ fs' = IF ok THEN Done(fs, tasks[i].pending[k]) ELSE fs
         /\ IF ok /\ rest # <<>>
              THEN /\ tasks' = [tasks EXCEPT ![i].pending = rest]
                   /\ UNCHANGED <<live, currentPrompt>>
              ELSE /\ ok \/ Len(tasks) + Len(Orphans(rest)) <= MaxInFlight
                   /\ tasks' = RemoveAt(tasks, i) \o (IF ok THEN <<>> ELSE Orphans(rest))
                                 \o <<MainMenuTask(currentDirectory)>>
                   /\ live' = IF ok THEN live ELSE Stopped(live, "confirmPurgePrompt")
                   /\ currentPrompt' = "folder-selection"
         /\ UNCHANGED <<navVars, prompts, moveVars, seriesVars, crashed, envVars>>

\* escape in the purge Confirm
CancelPurge ==
  \E prompt \in LiveOf("non-video-purge") :
    /\ KeyDelivered
    /\ Len(tasks) < MaxInFlight
    /\ live' = Stopped(live \ {prompt}, "confirmPurgePrompt")
    /\ currentPrompt' = "folder-selection"
    /\ tasks' = Append(tasks, MainMenuTask(currentDirectory))
    /\ UNCHANGED <<navVars, prompts, moveVars, seriesVars, fs, crashed, parserVars>>

\* backspace while currentPrompt is non-video-purge
BackspacePurge ==
  /\ KeyDelivered
  /\ currentPrompt = "non-video-purge"
  /\ prompts.confirmPurgePrompt # None
  /\ Len(tasks) < MaxInFlight
  /\ live' = Stopped(live, "confirmPurgePrompt")
  /\ currentPrompt' = "folder-selection"
  /\ tasks' = Append(tasks, MainMenuTask(currentDirectory))
  /\ UNCHANGED <<navVars, prompts, moveVars, seriesVars, fs, crashed, parserVars>>

(***************************************************************************)
(* promptMoveFolder, moveFolder (1286-1345), handleMoveFolderKeyPress      *)
(* (1733-1742)                                                             *)
(***************************************************************************)
\* the guard of a destination entry: the strings of the two paths compared
targetIsInsideSelf(currentDirectory_, folderName, folderToMove) ==
  startsWith(PathString(join(currentDirectory_, folderName)), PathString(folderToMove))

\* the folders are listed: the move target is recorded and the Select over
\* '..' and the folders that are not disabled is run
MoveFolderListed ==
  \E i \in TasksAt("promptMoveFolder") :
    LET dir == tasks[i].currentDirectory
        folderToMove == tasks[i].folderToMove
        folders == getFolderNames(fs, dir)
        Enabled(folderName) == ~targetIsInsideSelf(dir, folderName, folderToMove)
        moveFolderPrompt == [ kind |-> "move-folder", id |-> NewId,
                              currentDirectory |-> dir,
                              folderToMove |-> folderToMove,
                              targetIsAcceptable |->
                                ~\E k \in 1..Len(folders[1]) :
                                    folders[1][k] = basename(folderToMove),
                              choices |-> <<DotDot>> \o SelectSeq(folders[1], Enabled) ]
    IN /\ ~crashed
       /\ IF folders = None
            THEN /\ UnhandledRejection(live, RemoveAt(tasks, i))
                 /\ UNCHANGED <<prompts, currentMoveTarget>>
            ELSE /\ Cardinality(live) < MaxLive
                 /\ currentMoveTarget' = Some(join(dir, basename(folderToMove)))
                 /\ prompts' = [prompts EXCEPT !.moveFolderPrompt = Some(moveFolderPrompt)]
                 /\ live' = live \cup {moveFolderPrompt}
                 /\ tasks' = RemoveAt(tasks, i)
                 /\ UNCHANGED crashed
       /\ UNCHANGED <<navVars, currentPrompt, currentFolderToMove, seriesVars, fs,
                      envVars>>

\* enter on a destination: promptMoveFolder for the folder entered
SubmitMoveFolder ==
  \E prompt \in LiveOf("move-folder") : \E selectedFolder \in SeqToSet(prompt.choices) :
    /\ KeyDelivered
    /\ Len(tasks) < MaxInFlight
    /\ live' = Stopped(live \ {prompt}, "moveFolderPrompt")
    /\ currentPrompt' = "move-folder"
    /\ currentFolderToMove' = Some(prompt.folderToMove)
    /\ tasks' = Append(tasks, MoveFolderTask(join(prompt.currentDirectory, selectedFolder),
                                             prompt.folderToMove))
    /\ UNCHANGED <<navVars, prompts, currentMoveTarget, seriesVars, fs, crashed,
                   parserVars>>

\* escape in the move Select
CancelMoveFolder ==
  \E prompt \in LiveOf("move-folder") :
    /\ KeyDelivered
    /\ Len(tasks) < MaxInFlight
    /\ live' = Stopped(live \ {prompt}, "moveFolderPrompt")
    /\ currentPrompt' = "folder-selection"
    /\ tasks' = Append(tasks, MainMenuTask(currentDirectory))
    /\ UNCHANGED <<navVars, prompts, moveVars, seriesVars, fs, crashed, parserVars>>

\* 'a' while currentPrompt is move-folder: moveFolder(this.currentFolderToMove,
\* this.currentMoveTarget) issues the rename; without a target so far the
\* call throws inside moveFolder
KeyAcceptMove ==
  /\ KeyDelivered
  /\ currentPrompt = "move-folder"
  /\ IF currentMoveTarget = None
       THEN UnhandledRejection(live, tasks)
       ELSE /\ Len(tasks) < MaxInFlight
            /\ tasks' = Append(tasks, [ pc |-> "moveFolder",
                                        folderToMove |-> currentFolderToMove[1],
                                        target |-> currentMoveTarget[1] ])
            /\ UNCHANGED <<live, crashed>>
  /\ UNCHANGED <<navVars, currentPrompt, prompts, moveVars, seriesVars, fs, parserVars>>

\* the rename of moveFolder settles: promptMainMenu() after a success, an
\* unhandled rejection after a failure
MoveFolderDone ==
  \E i \in TasksAt("moveFolder") :
    \E ok \in Outcomes(fs, RenameOp(tasks[i].folderToMove, tasks[i].target)) :
      /\ ~crashed
      /\ IF ok
           THEN /\ fs' = Renamed(fs, tasks[i].folderToMove, tasks[i].target)
                /\ currentPrompt' = "folder-selection"
                /\ tasks' = Append(RemoveAt(tasks, i), MainMenuTask(currentDirectory))
                /\ UNCHANGED <<live, crashed>>
           ELSE /\ UnhandledRejection(live, RemoveAt(tasks, i))
                /\ UNCHANGED <<fs, currentPrompt>>
      /\ UNCHANGED <<navVars, prompts, moveVars, seriesVars, envVars>>

\* backspace while currentPrompt is move-folder
BackspaceMove ==
  /\ KeyDelivered
  /\ currentPrompt = "move-folder"
  /\ prompts.moveFolderPrompt # None
  /\ Len(tasks) < MaxInFlight
  /\ live' = Stopped(live, "moveFolderPrompt")
  /\ currentPrompt' = "folder-selection"
  /\ tasks' = Append(tasks, MainMenuTask(currentDirectory))
  /\ UNCHANGED <<navVars, prompts, moveVars, seriesVars, fs, crashed, parserVars>>

(***************************************************************************)
(* Episode mapping builder (1798-1874)                                     *)
(***************************************************************************)
\* /\d+/ on a folder name
seasonRegex == [lead |-> {}, numberStart |-> 0]

\* the episodes of every season
EpisodesOfAllSeasons(seriesDetails, season) == seriesDetails.episodes

\* the episodes of one season, in the provider's order
EpisodesOfSeason(seriesDetails, season) ==
  LET InSeason(episode) == episode.airedSeason = season
  IN SelectSeq(seriesDetails.episodes, InSeason)

\* the sorted mappings of the files of one season folder
generateEpisodeNamesForSeason(f, seasonFolder, season, seriesDetails) ==
  LET episodesInSeason == EpisodesOfSeason(seriesDetails, season)
      filesInSeasonFolder == getFileNames(f, seasonFolder)[1]
  IN sort([k \in 1..Len(filesInSeasonFolder) |->
             generateEpisodeName(seriesDetails.seriesName, seasonFolder, season,
                                 filesInSeasonFolder[k], episodesInSeason, None)])

\* the SeasonMapping over every folder of the series directory: a folder
\* without a number counts as season 2
generateEpisodeNamesOfAllFolders(f, seriesDirectory, seriesDetails) ==
  LET folders == getFolderNames(f, seriesDirectory)
      seasonFolders == folders[1]
      SeasonOf(folderName) == IF match(folderName, seasonRegex) = None THEN 2
                              ELSE parseInt(match(folderName, seasonRegex)[1])
      LastOf(season) == CHOOSE k \in 1..Len(seasonFolders) :
                          /\ SeasonOf(seasonFolders[k]) = season
                          /\ \A j \in (k + 1)..Len(seasonFolders) :
                               SeasonOf(seasonFolders[j]) # season
  IN IF folders = None THEN None
     ELSE Some([season \in {SeasonOf(seasonFolders[k]) : k \in 1..Len(seasonFolders)} |->
                  [ folderName |-> seasonFolders[LastOf(season)],
                    episodeMappings |->
                      generateEpisodeNamesForSeason(
                        f, join(seriesDirectory, seasonFolders[LastOf(season)]),
                        season, seriesDetails) ]])

\* None when the series directory cannot be listed, otherwise Some(the
\* SeasonMapping): a function from the season numbers found to the folder name
\* and the mappings; of two folders with one number the later one stays
generateEpisodeNames(f, seriesDirectory, seriesDetails) ==
  LET folders == getFolderNames(f, seriesDirectory)
      HasNumber(folderName) == match(folderName, seasonRegex) # None
      seasonFolders == SelectSeq(folders[1], HasNumber)
      SeasonOf(folderName) == parseInt(match(folderName, seasonRegex)[1])
      LastOf(season) == CHOOSE k \in 1..Len(seasonFolders) :
                          /\ SeasonOf(seasonFolders[k]) = season
                          /\ \A j \in (k + 1)..Len(seasonFolders) :
                               SeasonOf(seasonFolders[j]) # season
  IN IF folders = None THEN None
     ELSE Some([season \in {SeasonOf(seasonFolders[k]) : k \in 1..Len(seasonFolders)} |->
                  [ folderName |-> seasonFolders[LastOf(season)],
                    episodeMappings |->
                      generateEpisodeNamesForSeason(
                        f, join(seriesDirectory, seasonFolders[LastOf(season)]),
                        season, seriesDetails) ]])

\* the episodes offered for a file of season targetSeason
generateEpisodeSelection(seriesDetails, targetSeason) ==
  EpisodesOfSeason(seriesDetails, targetSeason)

\* Object.keys(seasonMapping).sort(): the season numbers as strings, sorted
SeasonKeys(seasonMapping) == SortStrings({NumToStr(season) : season \in DOMAIN seasonMapping})

\* the selectable entries of the review list: the mappings season by season
ReviewChoices(seasonMapping) ==
  LET seasons == SeasonKeys(seasonMapping)
  IN Flat([k \in 1..Len(seasons) |-> seasonMapping[parseInt(seasons[k])].episodeMappings])

\* the manual assignment: every entry of the season with the name of the
\* selected mapping is generated anew for the chosen episode, then the sort
AssignEpisode(seasonMapping, selectedSeries, episodeMapping, selectedEpisode) ==
  LET season == episodeMapping.value.seasonNumber
      episodesInSeason == EpisodesOfSeason(selectedSeries, selectedEpisode.airedSeason)
      old == seasonMapping[season].episodeMappings
      new == [i \in 1..Len(old) |->
                IF old[i].name = episodeMapping.name
                  THEN generateEpisodeName(selectedSeries.seriesName,
                                           episodeMapping.value.seasonFolder,
                                           episodeMapping.value.seasonNumber,
                                           basename(episodeMapping.value.originalPath),
                                           episodesInSeason,
                                           Some(selectedEpisode.airedEpisodeNumber))
                  ELSE old[i]]
  IN [seasonMapping EXCEPT ![season].episodeMappings = sort(new)]

\* the renames of a batch that does not look at the rename flag
RECURSIVE SeasonRenamesAll(_, _)
SeasonRenamesAll(episodeRenames, seasons) ==
  IF seasons = {} THEN <<>>
  ELSE LET season == CHOOSE s \in seasons : \A other \in seasons : s <= other
           all == episodeRenames[season].episodeMappings
       IN [k \in 1..Len(all) |->
             RenameOp(all[k].value.originalPath, all[k].value.updatedPath)]
          \o SeasonRenamesAll(episodeRenames, seasons \ {season})

\* the renames renameEpisodes issues, season by season
RECURSIVE SeasonRenames(_, _)
SeasonRenames(episodeRenames, seasons) ==
  IF seasons = {} THEN <<>>
  ELSE LET season == CHOOSE s \in seasons : \A other \in seasons : s <= other
           ToRename(episodeMapping) == episodeMapping.value.rename # FALSE
           renamed == SelectSeq(episodeRenames[season].episodeMappings, ToRename)
       IN [k \in 1..Len(renamed) |->
             RenameOp(renamed[k].value.originalPath, renamed[k].value.updatedPath)]
          \o SeasonRenames(episodeRenames, seasons \ {season})

\* a batch that issues one rename for each updatedPath
renameEpisodesOncePerPath(episodeRenames) ==
  LET all == SeasonRenames(episodeRenames, DOMAIN episodeRenames)
      First(k) == \A j \in 1..(k - 1) : all[j].to # all[k].to
      kept == SelectSeq([k \in 1..Len(all) |-> k], First)
  IN [k \in 1..Len(kept) |-> all[kept[k]]]

renameEpisodes(episodeRenames) == SeasonRenames(episodeRenames, DOMAIN episodeRenames)

(***************************************************************************)
(* promptSeriesLanguage, promptSeriesName, promptSeriesSuggestions         *)
(* (1380-1482), their key handlers (1760-1774)                             *)
(***************************************************************************)
\* a series-name prompt for the parent of the series directory
SeriesNamePromptOfParent(seriesDirectory, seriesLanguage) ==
  [ kind |-> "series-name", id |-> NewId, seriesDirectory |-> dirname(seriesDirectory),
    seriesLanguage |-> seriesLanguage ]

\* promptSeriesName runs its Input at once
SeriesNamePrompt(seriesDirectory, seriesLanguage) ==
  [ kind |-> "series-name", id |-> NewId, seriesDirectory |-> seriesDirectory,
    seriesLanguage |-> seriesLanguage ]

SeriesLanguageTask(seriesDirectory) ==
  [pc |-> "promptSeriesLanguage", seriesDirectory |-> seriesDirectory]

SeriesSuggestionsTask(seriesDirectory, seriesLanguage, seriesName) ==
  [ pc |-> "promptSeriesSuggestions", seriesDirectory |-> seriesDirectory,
    seriesLanguage |-> seriesLanguage, seriesName |-> seriesName ]

EpisodeRenamesTask(seriesDirectory, seriesLanguage, selectedSeries) ==
  [ pc |-> "promptEpisodeRenames", seriesDirectory |-> seriesDirectory,
    seriesLanguage |-> seriesLanguage, selectedSeries |-> selectedSeries ]

\* tvdb.getLanguages() settles: the Select is run, or the call failed
LanguagesLoaded ==
  \E i \in TasksAt("promptSeriesLanguage") : \E ok \in BOOLEAN :
    LET seriesLanguagePrompt == [ kind |-> "series-language", id |-> NewId,
                                  seriesDirectory |-> tasks[i].seriesDirectory,
                                  choices |-> Languages ]
    IN /\ ~crashed
       /\ IF ~ok
            THEN /\ UnhandledRejection(live, RemoveAt(tasks, i))
                 /\ UNCHANGED prompts
            ELSE /\ Cardinality(live) < MaxLive
                 /\ prompts' = [prompts EXCEPT !.seriesLanguagePrompt =
                                                  Some(seriesLanguagePrompt)]
                 /\ live' = live \cup {seriesLanguagePrompt}
                 /\ tasks' = RemoveAt(tasks, i)
                 /\ UNCHANGED crashed
       /\ UNCHANGED <<navVars, currentPrompt, moveVars, seriesVars, fs, envVars>>

\* enter in the language Select: promptSeriesName
SubmitSeriesLanguage ==
  \E prompt \in LiveOf("series-language") :
    \E selected \in SeqToSet(prompts.seriesLanguagePrompt[1].choices) :
      LET seriesNamePrompt == SeriesNamePrompt(prompt.seriesDirectory, selected)
      IN /\ KeyDelivered
         /\ currentSeriesLanguage' = Some(selected)
         /\ currentPrompt' = "series-name"
         /\ prompts' = [prompts EXCEPT !.seriesNamePrompt = Some(seriesNamePrompt)]
         /\ live' = Stopped(live \ {prompt}, "seriesLanguagePrompt") \cup {seriesNamePrompt}
         /\ UNCHANGED <<navVars, moveVars, currentSeriesDirectory, currentSeriesName,
                        currentSeries, currentEpisodeRenames, currentEpisodeAssign, fs,
                        tasks, crashed, parserVars>>

\* escape in the language Select: promptMainMenu()
CancelSeriesLanguage ==
  \E prompt \in LiveOf("series-language") :
    /\ KeyDelivered
    /\ Len(tasks) < MaxInFlight
    /\ live' = Stopped(live \ {prompt}, "seriesLanguagePrompt")
    /\ currentPrompt' = "folder-selection"
    /\ tasks' = Append(tasks, MainMenuTask(currentDirectory))
    /\ UNCHANGED <<navVars, prompts, moveVars, seriesVars, fs, crashed, parserVars>>

\* backspace while currentPrompt is series-language: promptMainMenu()
BackspaceSeriesLanguage ==
  /\ KeyDelivered
  /\ currentPrompt = "series-language"
  /\ prompts.seriesLanguagePrompt # None
  /\ Len(tasks) < MaxInFlight
  /\ live' = Stopped(live, "seriesLanguagePrompt")
  /\ currentPrompt' = "folder-selection"
  /\ tasks' = Append(tasks, MainMenuTask(currentDirectory))
  /\ UNCHANGED <<navVars, prompts, moveVars, seriesVars, fs, crashed, parserVars>>

\* enter in the series-name Input: promptSeriesSuggestions starts the search
SubmitSeriesName ==
  \E prompt \in LiveOf("series-name") : \E seriesName \in SeriesNameInputs :
    /\ KeyDelivered
    /\ Len(tasks) < MaxInFlight
    /\ currentSeriesName' = Some(seriesName)
    /\ currentPrompt' = "series-suggestions"
    /\ currentEpisodeRenames' = None
    /\ live' = Stopped(live \ {prompt}, "seriesNamePrompt")
    /\ tasks' = Append(tasks, SeriesSuggestionsTask(prompt.seriesDirectory,
                                                    prompt.seriesLanguage, seriesName))
    /\ UNCHANGED <<navVars, prompts, moveVars, currentSeriesDirectory,
                   currentSeriesLanguage, currentSeries, currentEpisodeAssign, fs,
                   crashed, parserVars>>

\* escape in the series-name Input: promptSeriesLanguage
CancelSeriesName ==
  \E prompt \in LiveOf("series-name") :
    /\ KeyDelivered
    /\ Len(tasks) < MaxInFlight
    /\ currentPrompt' = "series-language"
    /\ currentEpisodeRenames' = None
    /\ live' = Stopped(live \ {prompt}, "seriesNamePrompt")
    /\ tasks' = Append(tasks, SeriesLanguageTask(prompt.seriesDirectory))
    /\ UNCHANGED <<navVars, prompts, moveVars, currentSeriesDirectory,
                   currentSeriesLanguage, currentSeriesName, currentSeries,
                   currentEpisodeAssign, fs, crashed, parserVars>>

\* tvdb.getSeriesByName settles: the Select over the series found is run;
\* when the search failed, promptSeriesName
SeriesSearched ==
  \E i \in TasksAt("promptSeriesSuggestions") : \E ok \in BOOLEAN :
    LET seriesSelectionPrompt == [ kind |-> "series-suggestions", id |-> NewId,
                                   seriesDirectory |-> tasks[i].seriesDirectory,
                                   seriesLanguage |-> tasks[i].seriesLanguage,
                                   choices |-> SearchResults ]
        seriesNamePrompt == SeriesNamePrompt(tasks[i].seriesDirectory,
                                             tasks[i].seriesLanguage)
    IN /\ ~crashed
       /\ Cardinality(live) < MaxLive
       /\ IF ok
            THEN /\ prompts' = [prompts EXCEPT !.seriesSelectionPrompt =
                                                  Some(seriesSelectionPrompt)]
                 /\ live' = live \cup {seriesSelectionPrompt}
                 /\ UNCHANGED <<currentPrompt, consoleLog>>
            ELSE /\ consoleLog' = Some(SeriesNotFoundMessage)
                 /\ prompts' = [prompts EXCEPT !.seriesNamePrompt = Some(seriesNamePrompt)]
                 /\ live' = live \cup {seriesNamePrompt}
                 /\ currentPrompt' = "series-name"
       /\ tasks' = RemoveAt(tasks, i)
       /\ UNCHANGED <<navVars, moveVars, seriesVars, fs, crashed, inputs, unitVars>>

\* enter in the series Select: promptEpisodeRenames asks for the episodes
SubmitSeriesSuggestions ==
  \E prompt \in LiveOf("series-suggestions") :
    \E selected \in SeqToSet(prompts.seriesSelectionPrompt[1].choices) :
      /\ KeyDelivered
      /\ Len(tasks) < MaxInFlight
      /\ currentSeries' = Some(selected)
      /\ currentPrompt' = "episode-renames"
      /\ live' = Stopped(live \ {prompt}, "seriesSelectionPrompt")
      /\ tasks' = Append(tasks, EpisodeRenamesTask(prompt.seriesDirectory,
                                                   prompt.seriesLanguage, selected))
      /\ UNCHANGED <<navVars, prompts, moveVars, currentSeriesDirectory,
                     currentSeriesLanguage, currentSeriesName, currentEpisodeRenames,
                     currentEpisodeAssign, fs, crashed, parserVars>>

\* escape in the series Select: promptSeriesName
CancelSeriesSuggestions ==
  \E prompt \in LiveOf("series-suggestions") :
    LET seriesNamePrompt == SeriesNamePrompt(prompt.seriesDirectory, prompt.seriesLanguage)
    IN /\ KeyDelivered
       /\ currentPrompt' = "series-name"
       /\ prompts' = [prompts EXCEPT !.seriesNamePrompt = Some(seriesNamePrompt)]
       /\ live' = Stopped(live \ {prompt}, "seriesSelectionPrompt") \cup {seriesNamePrompt}
       /\ UNCHANGED <<navVars, moveVars, seriesVars, fs, tasks, crashed, parserVars>>

\* backspace while currentPrompt is series-suggestions: promptSeriesName
BackspaceSeriesSuggestions ==
  LET seriesNamePrompt == SeriesNamePrompt(currentSeriesDirectory[1],
                                           currentSeriesLanguage[1])
  IN /\ KeyDelivered
     /\ currentPrompt = "series-suggestions"
     /\ prompts.seriesSelectionPrompt # None
     /\ Cardinality(Stopped(live, "seriesSelectionPrompt")) < MaxLive
     /\ currentPrompt' = "series-name"
     /\ prompts' = [prompts EXCEPT !.seriesNamePrompt = Some(seriesNamePrompt)]
     /\ live' = Stopped(live, "seriesSelectionPrompt") \cup {seriesNamePrompt}
     /\ UNCHANGED <<navVars, moveVars, seriesVars, fs, tasks, crashed, parserVars>>

(***************************************************************************)
(* promptEpisodeRenames, promptEpisodeAssign, renameEpisodes (1484-1589),  *)
(* their key handlers (1776-1796)                                          *)
(***************************************************************************)
\* the review Select over the current SeasonMapping
EpisodeRenamePrompt(task, seriesDetails, seasonMapping) ==
  [ kind |-> "episode-renames", id |-> NewId,
    seriesDirectory |-> task.seriesDirectory,
    seriesLanguage |-> task.seriesLanguage,
    seriesDetails |-> seriesDetails,
    choices |-> ReviewChoices(seasonMapping) ]

\* tvdb.getSeriesAllById settles: with a SeasonMapping at hand the review is
\* shown, without one generateEpisodeNames starts reading the directory
SeriesDetailsLoaded ==
  \E i \in TasksAt("promptEpisodeRenames") : \E ok \in BOOLEAN :
    LET seriesDetails == SeriesDetails(tasks[i].selectedSeries.id)
        episodeRenamePrompt ==
          EpisodeRenamePrompt(tasks[i], seriesDetails, currentEpisodeRenames[1])
    IN /\ ~crashed
       /\ IF ~ok
            THEN /\ UnhandledRejection(live, RemoveAt(tasks, i))
                 /\ UNCHANGED prompts
            ELSE IF currentEpisodeRenames = None
              THEN /\ tasks' = [tasks EXCEPT ![i] =
                          [ pc |-> "generateEpisodeNames",
                            seriesDirectory |-> tasks[i].seriesDirectory,
                            seriesLanguage |-> tasks[i].seriesLanguage,
                            seriesDetails |-> seriesDetails ]]
                   /\ UNCHANGED <<prompts, live, crashed>>
              ELSE /\ Cardinality(live) < MaxLive
                   /\ prompts' = [prompts EXCEPT !.episodeRenamePrompt =
                                                    Some(episodeRenamePrompt)]
                   /\ live' = live \cup {episodeRenamePrompt}
                   /\ tasks' = RemoveAt(tasks, i)
                   /\ UNCHANGED crashed
       /\ UNCHANGED <<navVars, currentPrompt, moveVars, seriesVars, fs, envVars>>

\* generateEpisodeNames has read the directory: the SeasonMapping is stored
\* and the review is shown
EpisodeNamesGenerated ==
  \E i \in TasksAt("generateEpisodeNames") :
    LET generated == generateEpisodeNames(fs, tasks[i].seriesDirectory,
                                          tasks[i].seriesDetails)
        episodeRenamePrompt ==
          EpisodeRenamePrompt(tasks[i], tasks[i].seriesDetails, generated[1])
    IN /\ ~crashed
       /\ IF generated = None
            THEN /\ UnhandledRejection(live, RemoveAt(tasks, i))
                 /\ UNCHANGED <<prompts, currentEpisodeRenames>>
            ELSE /\ Cardinality(live) < MaxLive
                 /\ currentEpisodeRenames' = generated
                 /\ prompts' = [prompts EXCEPT !.episodeRenamePrompt =
                                                  Some(episodeRenamePrompt)]
                 /\ live' = live \cup {episodeRenamePrompt}
                 /\ tasks' = RemoveAt(tasks, i)
                 /\ UNCHANGED crashed
       /\ UNCHANGED <<navVars, currentPrompt, moveVars, currentSeriesDirectory,
                      currentSeriesLanguage, currentSeriesName, currentSeries,
                      currentEpisodeAssign, fs, envVars>>

\* enter on a file of the review: promptEpisodeAssign runs its Select over the
\* episodes of the file's season
SubmitEpisodeRenames ==
  \E prompt \in LiveOf("episode-renames") :
    \E selected \in SeqToSet(prompts.episodeRenamePrompt[1].choices) :
      LET episodeAssignPrompt ==
            [ kind |-> "assign-episode", id |-> NewId,
              seriesDirectory |-> prompt.seriesDirectory,
              seriesLanguage |-> prompt.seriesLanguage,
              selectedSeries |-> prompt.seriesDetails,
              episodeMapping |-> selected,
              choices |-> generateEpisodeSelection(prompt.seriesDetails,
                                                   selected.value.seasonNumber) ]
      IN /\ KeyDelivered
         /\ currentEpisodeAssign' = Some(selected)
         /\ currentPrompt' = "assign-episode"
         /\ prompts' = [prompts EXCEPT !.episodeAssignPrompt = Some(episodeAssignPrompt)]
         /\ live' = Stopped(live \ {prompt}, "episodeRenamePrompt")
                      \cup {episodeAssignPrompt}
         /\ UNCHANGED <<navVars, moveVars, currentSeriesDirectory, currentSeriesLanguage,
                        currentSeriesName, currentSeries, currentEpisodeRenames, fs,
                        tasks, crashed, parserVars>>

\* escape in the review Select: the catch block calls promptSeriesName
CancelEpisodeRenames ==
  \E prompt \in LiveOf("episode-renames") :
    LET seriesNamePrompt == SeriesNamePrompt(prompt.seriesDirectory, prompt.seriesLanguage)
    IN /\ KeyDelivered
       /\ currentPrompt' = "series-name"
       /\ prompts' = [prompts EXCEPT !.seriesNamePrompt = Some(seriesNamePrompt)]
       /\ live' = Stopped(live \ {prompt}, "episodeRenamePrompt") \cup {seriesNamePrompt}
       /\ UNCHANGED <<navVars, moveVars, seriesVars, fs, tasks, crashed, parserVars>>

\* backspace while currentPrompt is episode-renames: promptSeriesSuggestions
BackspaceEpisodeRenames ==
  /\ KeyDelivered
  /\ currentPrompt = "episode-renames"
  /\ prompts.episodeRenamePrompt # None
  /\ Len(tasks) < MaxInFlight
  /\ currentPrompt' = "series-suggestions"
  /\ currentEpisodeRenames' = None
  /\ live' = Stopped(live, "episodeRenamePrompt")
  /\ tasks' = Append(tasks, SeriesSuggestionsTask(currentSeriesDirectory[1],
                                                  currentSeriesLanguage[1],
                                                  currentSeriesName[1]))
  /\ UNCHANGED <<navVars, prompts, moveVars, currentSeriesDirectory,
                 currentSeriesLanguage, currentSeriesName, currentSeries,
                 currentEpisodeAssign, fs, crashed, parserVars>>

\* the batch of renameEpisodes: its argument, the renames issued (their
\* number is renamedFileCount) and those still in flight
RenameEpisodesTask(episodeRenames) ==
  [ pc |-> "renameEpisodes", episodeRenames |-> episodeRenames,
    issued |-> renameEpisodes(episodeRenames),
    pending |-> renameEpisodes(episodeRenames) ]

\* 'a' while currentPrompt is episode-renames: renameEpisodes issues every
\* rename and, without waiting for them, promptMainMenu() is called; without
\* a SeasonMapping renameEpisodes throws
KeyAcceptEpisodeRenames ==
  /\ KeyDelivered
  /\ currentPrompt = "episode-renames"
  /\ prompts.episodeRenamePrompt # None
  /\ Len(tasks) + 2 <= MaxInFlight
  /\ currentPrompt' = "folder-selection"
  /\ IF currentEpisodeRenames = None
       THEN UnhandledRejection(Stopped(live, "episodeRenamePrompt"),
                               Append(tasks, MainMenuTask(currentDirectory)))
       ELSE /\ live' = Stopped(live, "episodeRenamePrompt")
            /\ tasks' = tasks \o <<RenameEpisodesTask(currentEpisodeRenames[1]),
                                   MainMenuTask(currentDirectory)>>
            /\ UNCHANGED crashed
  /\ UNCHANGED <<navVars, prompts, moveVars, seriesVars, fs, parserVars>>

\* one rename of the batch settles; the first failure rejects the
\* Promise.all of renameEpisodes, which nothing handles
RenameEpisodeDone ==
  \E i \in TasksAt("renameEpisodes") : \E k \in 1..Len(tasks[i].pending) :
    \E ok \in Outcomes(fs, tasks[i].pending[k]) :
      LET rest == RemoveAt(tasks[i].pending, k)
      IN /\ ~crashed
         /\ fs' = IF ok THEN Done(fs, tasks[i].pending[k]) ELSE fs
         /\ IF ok
              THEN /\ tasks' = [tasks EXCEPT ![i].pending = rest]
                   /\ UNCHANGED <<live, crashed>>
              ELSE UnhandledRejection(live, SubSeq(tasks, 1, i - 1) \o Orphans(rest)
                                              \o SubSeq(tasks, i + 1, Len(tasks)))
         /\ UNCHANGED <<navVars, currentPrompt, prompts, moveVars, seriesVars,
                        envVars>>

\* every rename of the batch succeeded: the count is logged
RenameEpisodesLogged ==
  \E i \in TasksAt("renameEpisodes") :
    /\ ~crashed
    /\ tasks[i].pending = <<>>
    /\ consoleLog' = Some(RenamedMessage(Len(tasks[i].issued)))
    /\ tasks' = RemoveAt(tasks, i)
    /\ UNCHANGED <<navVars, currentPrompt, prompts, live, moveVars, seriesVars, fs,
                   crashed, inputs, unitVars>>

\* enter on an episode of the assign Select: the mapping is replaced and the
\* season sorted, then promptEpisodeRenames; without the season's entry in
\* this.currentEpisodeRenames the catch block calls promptSeriesName
SubmitEpisodeAssign ==
  \E prompt \in LiveOf("assign-episode") :
    \E selectedEpisode \in SeqToSet(prompts.episodeAssignPrompt[1].choices) :
      LET season == prompt.episodeMapping.value.seasonNumber
          known == /\ currentEpisodeRenames # None
                   /\ season \in DOMAIN currentEpisodeRenames[1]
          seriesNamePrompt == SeriesNamePrompt(prompt.seriesDirectory,
                                               prompt.seriesLanguage)
      IN /\ KeyDelivered
         /\ IF known
              THEN /\ Len(tasks) < MaxInFlight
                   /\ currentEpisodeRenames' =
                        Some(AssignEpisode(currentEpisodeRenames[1], prompt.selectedSeries,
                                           prompt.episodeMapping, selectedEpisode))
                   /\ currentPrompt' = "episode-renames"
                   /\ live' = Stopped(live \ {prompt}, "episodeAssignPrompt")
                   /\ tasks' = Append(tasks, EpisodeRenamesTask(
                                               prompt.seriesDirectory,
                                               prompt.seriesLanguage,
                                               prompt.selectedSeries))
                   /\ consoleLog' = IF \E k \in 1..Len(currentEpisodeRenames[1][season].episodeMappings) :
                                          currentEpisodeRenames[1][season].episodeMappings[k].name
                                            = prompt.episodeMapping.name
                                      THEN Some(MappingMessage) ELSE consoleLog
                   /\ UNCHANGED prompts
              ELSE /\ currentPrompt' = "series-name"
                   /\ prompts' = [prompts EXCEPT !.seriesNamePrompt =
                                                    Some(seriesNamePrompt)]
                   /\ live' = Stopped(live \ {prompt}, "episodeAssignPrompt")
                                \cup {seriesNamePrompt}
                   /\ UNCHANGED <<tasks, currentEpisodeRenames, consoleLog>>
         /\ UNCHANGED <<navVars, moveVars, currentSeriesDirectory, currentSeriesLanguage,
                        currentSeriesName, currentSeries, currentEpisodeAssign, fs,
                        crashed, unitVars>>

\* escape in the assign Select: the catch block calls promptSeriesName
CancelEpisodeAssign ==
  \E prompt \in LiveOf("assign-episode") :
    LET seriesNamePrompt == SeriesNamePrompt(prompt.seriesDirectory, prompt.seriesLanguage)
    IN /\ KeyDelivered
       /\ currentPrompt' = "series-name"
       /\ prompts' = [prompts EXCEPT !.seriesNamePrompt = Some(seriesNamePrompt)]
       /\ live' = Stopped(live \ {prompt}, "episodeAssignPrompt") \cup {seriesNamePrompt}
       /\ UNCHANGED <<navVars, moveVars, seriesVars, fs, tasks, crashed, parserVars>>

\* backspace while currentPrompt is assign-episode: promptEpisodeRenames
BackspaceEpisodeAssign ==
  /\ KeyDelivered
  /\ currentPrompt = "assign-episode"
  /\ prompts.episodeAssignPrompt # None
  /\ Len(tasks) < MaxInFlight
  /\ currentPrompt' = "episode-renames"
  /\ live' = Stopped(live, "episodeAssignPrompt")
  /\ tasks' = Append(tasks, EpisodeRenamesTask(currentSeriesDirectory[1],
                                               currentSeriesLanguage[1],
                                               currentSeries[1]))
  /\ UNCHANGED <<navVars, prompts, moveVars, seriesVars, fs, crashed, parserVars>>

(***************************************************************************)
(* A key arrives while the field its handler uses holds no prompt yet      *)
(***************************************************************************)
\* the field each handler dereferences: handleFolderSelectionKeyPress for
\* every key, handleEpisodeRenamesKeyPress for backspace and 'a', the others
\* for backspace
HandlerField ==
  [ s \in {"folder-selection", "move-folder", "hoist-files", "non-video-purge",
           "series-language", "series-suggestions", "episode-renames",
           "assign-episode"} |->
      CASE s = "folder-selection" -> "filesPrompt"
        [] s = "move-folder" -> "moveFolderPrompt"
        [] s = "hoist-files" -> "confirmHoistPrompt"
        [] s = "non-video-purge" -> "confirmPurgePrompt"
        [] s = "series-language" -> "seriesLanguagePrompt"
        [] s = "series-suggestions" -> "seriesSelectionPrompt"
        [] s = "episode-renames" -> "episodeRenamePrompt"
        [] s = "assign-episode" -> "episodeAssignPrompt" ]

\* backspace in a state without a handler of its own: nothing is done (an
\* Input edits its text, the delete Confirm ignores the key)
BackspaceIgnored ==
  /\ KeyDelivered
  /\ currentPrompt \in {"rename", "create-folder", "delete-folder", "series-name"}
  /\ UNCHANGED <<navVars, currentPrompt, prompts, live, moveVars, seriesVars, fs, tasks,
                 crashed, parserVars>>

\* the TypeError of reading a property of undefined is thrown out of the
\* keypress listener
KeyCrash ==
  /\ KeyDelivered
  /\ currentPrompt \in DOMAIN HandlerField
  /\ prompts[HandlerField[currentPrompt]] = None
  /\ Crash
  /\ UNCHANGED <<navVars, currentPrompt, prompts, moveVars, seriesVars, fs, parserVars>>

(***************************************************************************)
(* The program                                                             *)
(***************************************************************************)
Next ==
  \/ MainMenuListed \/ SubmitFolderSelection \/ CancelFolderSelection
  \/ KeyOtherInFolderSelection \/ KeyRename \/ KeyCreateFolder \/ KeyDelete
  \/ KeyHoist \/ KeyMove \/ KeyUpdate \/ KeyPurge \/ KeyExit \/ KeySeries
  \/ OrphanDone
  \/ SubmitRename \/ RenameDone \/ CancelRename
  \/ SubmitCreateFolder \/ CreateFolderDone \/ CancelCreateFolder
  \/ AnswerDelete \/ DeleteDone \/ CancelDelete
  \/ HoistListed \/ AnswerHoist \/ HoistMoveDone \/ HoistFoldersListed
  \/ HoistRimrafDone \/ CancelHoist \/ BackspaceHoist
  \/ PurgeListed \/ AnswerPurge \/ PurgeUnlinkDone \/ CancelPurge \/ BackspacePurge
  \/ MoveFolderListed \/ SubmitMoveFolder \/ CancelMoveFolder \/ KeyAcceptMove
  \/ MoveFolderDone \/ BackspaceMove
  \/ LanguagesLoaded \/ SubmitSeriesLanguage \/ CancelSeriesLanguage
  \/ BackspaceSeriesLanguage
  \/ SubmitSeriesName \/ CancelSeriesName
  \/ SeriesSearched \/ SubmitSeriesSuggestions \/ CancelSeriesSuggestions
  \/ BackspaceSeriesSuggestions
  \/ SeriesDetailsLoaded \/ EpisodeNamesGenerated \/ SubmitEpisodeRenames
  \/ CancelEpisodeRenames \/ BackspaceEpisodeRenames \/ KeyAcceptEpisodeRenames
  \/ RenameEpisodeDone \/ RenameEpisodesLogged
  \/ SubmitEpisodeAssign \/ CancelEpisodeAssign \/ BackspaceEpisodeAssign
  \/ BackspaceIgnored \/ KeyCrash

Spec == Init /\ [][Next]_vars

(***************************************************************************)
(* The series pipeline on its own: the user presses s in the start         *)
(* directory and stays in the states of promptSeriesRename (1380-1384)     *)
(* and its successors, for a longer session than Spec explores             *)
(***************************************************************************)
MaxSeriesInputs == 9

Str_e2mkv == <<"e", "2", ".", "m", "k", "v">>

\* the series directory /tv with the season folder S1, a folder without a
\* number (A) that holds a video, and a video directly in /tv
SeriesFs ==
  [ dirs |-> InitialFs.dirs \cup {<<Str_tv, Str_A>>},
    files |-> InitialFs.files \cup {<<Str_tv, Str_A, Str_e2mkv>>, <<Str_tv, Str_e2mkv>>} ]

InitSeries ==
  /\ currentDirectory = StartDirectory
  /\ highlightedFolder = DotDot
  /\ currentPrompt = "folder-selection"
  /\ prompts = [f \in PromptFields |-> None]
  /\ live = {}
  /\ currentFolderToMove = None
  /\ currentMoveTarget = None
  /\ currentSeriesDirectory = None
  /\ currentSeriesLanguage = None
  /\ currentSeriesName = None
  /\ currentSeries = None
  /\ currentEpisodeRenames = None
  /\ currentEpisodeAssign = None
  /\ fs = SeriesFs
  /\ tasks = <<MainMenuTask(StartDirectory)>>
  /\ crashed = FALSE
  /\ inputs = MaxSeriesInputs
  /\ fileNameInput = <<>>
  /\ episodeNumberOutput = None
  /\ unitInput = NoCall
  /\ unitOutput = None
  /\ consoleLog = None

NextSeries ==
  \/ MainMenuListed \/ KeySeries \/ OrphanDone
  \/ LanguagesLoaded \/ SubmitSeriesLanguage \/ CancelSeriesLanguage
  \/ BackspaceSeriesLanguage
  \/ SubmitSeriesName \/ CancelSeriesName
  \/ SeriesSearched \/ SubmitSeriesSuggestions \/ CancelSeriesSuggestions
  \/ BackspaceSeriesSuggestions
  \/ SeriesDetailsLoaded \/ EpisodeNamesGenerated \/ SubmitEpisodeRenames
  \/ CancelEpisodeRenames \/ BackspaceEpisodeRenames \/ KeyAcceptEpisodeRenames
  \/ RenameEpisodeDone \/ RenameEpisodesLogged
  \/ SubmitEpisodeAssign \/ CancelEpisodeAssign \/ BackspaceEpisodeAssign
  \/ BackspaceIgnored

SpecSeries == InitSeries /\ [][NextSeries]_vars

(***************************************************************************)
(* The episode-number parser on its own: the loop of generateEpisodeName   *)
(* (1914-1923) applied to file names drawn from a bounded set              *)
(***************************************************************************)
MaxFileNameLen == 3
FileNameChars == {"e", "E", "x", "X", "0", "7", "."}

Str_ShowE07mkv == <<"S", "h", "o", "w", ".", "E", "0", "7", ".", "m", "k", "v">>
Str_Show7x07mkv == <<"S", "h", "o", "w", ".", "7", "x", "0", "7", ".", "m", "k", "v">>
Str_Show07mkv == <<"S", "h", "o", "w", ".", "0", "7", ".", "m", "k", "v">>
Str_Showmkv == <<"S", "h", "o", "w", ".", "m", "k", "v">>

FileNameInputs ==
  UNION {[1..n -> FileNameChars] : n \in 0..MaxFileNameLen}
    \cup {Str_ShowE07mkv, Str_Show7x07mkv, Str_Show07mkv, Str_Showmkv}

InitParser ==
  /\ currentDirectory = StartDirectory
  /\ highlightedFolder = DotDot
  /\ currentPrompt = "folder-selection"
  /\ prompts = [f \in PromptFields |-> None]
  /\ live = {}
  /\ currentFolderToMove = None
  /\ currentMoveTarget = None
  /\ currentSeriesDirectory = None
  /\ currentSeriesLanguage = None
  /\ currentSeriesName = None
  /\ currentSeries = None
  /\ currentEpisodeRenames = None
  /\ currentEpisodeAssign = None
  /\ fs = InitialFs
  /\ tasks = <<>>
  /\ crashed = FALSE
  /\ inputs = 0
  /\ fileNameInput \in FileNameInputs
  /\ episodeNumberOutput = None
  /\ unitInput = NoCall
  /\ unitOutput = None
  /\ consoleLog = None

\* the loop runs on the file name
ParseFileName ==
  /\ episodeNumberOutput = None
  /\ episodeNumberOutput' = Some(parseEpisodeNumber(fileNameInput, 1))
  /\ UNCHANGED <<navVars, currentPrompt, prompts, live, moveVars, seriesVars, fs, tasks,
                 crashed, inputs, fileNameInput, unitInput, unitOutput, consoleLog>>

NextParser == ParseFileName

SpecParser == InitParser /\ [][NextParser]_vars

(***************************************************************************)
(* The naming functions on their own: the sanitizer loop of                *)
(* generateEpisodeFileName (1993-1995), generateEpisodeNumber (1961-1966)  *)
(* and generateEpisodeName (1900-1959), called on inputs drawn from        *)
(* bounded sets                                                            *)
(***************************************************************************)
MaxSanitizeLen == 3
MaxEpisodeNumber == 150

\* the characters the sanitizer replaces, and two that it leaves alone
ReplacedChars == {"ä", "ö", "ü", "ß", "Ä", "Ö", "Ü", "?", ",", "\"", ":", " ", "\t", "/"}
SanitizeChars == ReplacedChars \cup {"a", "-"}

Str_Showe01mkv == <<"S", "h", "o", "w", ".", "e", "0", "1", ".", "m", "k", "v">>
Str_Showe02mkv == <<"S", "h", "o", "w", ".", "e", "0", "2", ".", "m", "k", "v">>
Str_readmetxt == <<"r", "e", "a", "d", "m", "e", ".", "t", "x", "t">>
Str_e3mkv == <<"e", "3", ".", "m", "k", "v">>
Str_E1MKV == <<"E", "1", ".", "M", "K", "V">>
Str_e1 == <<"e", "1">>
Str_ShowS01E01Pilotmkv == Str_Show \o <<".", "S", "0", "1", "E", "0", "1", ".">> \o Str_Pilot \o <<".", "m", "k", "v">>
Str_ShowS01E02SecondEpisodemkv == Str_Show \o <<".", "S", "0", "1", "E", "0", "2", ".", "S", "e", "c", "o", "n", "d", ".", "E", "p", "i", "s", "o", "d", "e", ".", "m", "k", "v">>

\* a series whose name and titles need the sanitizer, with episodes in two
\* seasons
UmlautSeries ==
  [ id |-> 2, seriesName |-> <<"Ä", ":", " ", "b">>,
    episodes |-> << [id |-> 21, airedSeason |-> 1, airedEpisodeNumber |-> 1,
                     episodeName |-> <<"W", "h", "o", "?">>],
                    [id |-> 22, airedSeason |-> 2, airedEpisodeNumber |-> 1,
                     episodeName |-> <<"a", "/", "b">>] >> ]

\* a series whose first season has an episode 4
FourEpisodeSeries ==
  [ id |-> 3, seriesName |-> Str_A,
    episodes |-> << [id |-> 34, airedSeason |-> 1, airedEpisodeNumber |-> 4,
                     episodeName |-> Str_A] >> ]

Str_Showmp4 == <<"S", "h", "o", "w", ".", "m", "p", "4">>

NamingSeries == {SeriesDetails(1), UmlautSeries, FourEpisodeSeries}
NamingFileNames == {Str_Showe01mkv, Str_Showe02mkv, Str_readmetxt, Str_bmkv, Str_e1mkv,
                    Str_e3mkv, Str_E1MKV, Str_e1, Str_ntxt, Str_Showmp4}
EpisodeCounts == {0, 1, 45, 99, 100, 101, 150}

SanitizeCalls ==
  {[fn |-> "sanitize", name |-> name] :
     name \in UNION {[1..n -> SanitizeChars] : n \in 0..MaxSanitizeLen}}

EpisodeNumberCalls ==
  {[fn |-> "generateEpisodeNumber", episodeNumber |-> n, episodesInSeason |-> count] :
     n \in 0..MaxEpisodeNumber, count \in EpisodeCounts}

\* the calls of generateEpisodeNamesForSeason (1861-1870): the episodes are
\* those of the folder's season
EpisodeNameCalls ==
  {[fn |-> "generateEpisodeName", seriesName |-> series.seriesName,
    seasonFolder |-> <<Str_tv, Str_S1>>, seasonNumber |-> season, fileName |-> fileName,
    episodesInSeason |-> SelectSeq(series.episodes, LAMBDA e : e.airedSeason = season)] :
     series \in NamingSeries, season \in {1, 2}, fileName \in NamingFileNames}

Str_S2 == <<"S", "2">>
Str_S10 == <<"S", "1", "0">>
Str_S01 == <<"S", "0", "1">>

\* a series directory /tv with the given season folders, a video in each
SeasonStore(folderNames) ==
  [ dirs |-> {<<>>, <<Str_tv>>} \cup {<<Str_tv, folderName>> : folderName \in folderNames},
    files |-> {<<Str_tv, folderName, Str_e1mkv>> : folderName \in folderNames} ]

\* the review of promptEpisodeRenames (1491-1500) over the SeasonMapping built
\* for a series directory
ReviewCalls ==
  {[fn |-> "reviewSections", store |-> SeasonStore(folderNames)] :
     folderNames \in SUBSET {Str_S1, Str_S2, Str_S10, Str_S01}}

InitNaming ==
  /\ currentDirectory = StartDirectory
  /\ highlightedFolder = DotDot
  /\ currentPrompt = "folder-selection"
  /\ prompts = [f \in PromptFields |-> None]
  /\ live = {}
  /\ currentFolderToMove = None
  /\ currentMoveTarget = None
  /\ currentSeriesDirectory = None
  /\ currentSeriesLanguage = None
  /\ currentSeriesName = None
  /\ currentSeries = None
  /\ currentEpisodeRenames = None
  /\ currentEpisodeAssign = None
  /\ fs = InitialFs
  /\ tasks = <<>>
  /\ crashed = FALSE
  /\ inputs = 0
  /\ fileNameInput = <<>>
  /\ episodeNumberOutput = None
  /\ unitInput \in SanitizeCalls \cup EpisodeNumberCalls \cup EpisodeNameCalls
                     \cup ReviewCalls
  /\ unitOutput = None
  /\ consoleLog = None

NamingFrame ==
  UNCHANGED <<navVars, currentPrompt, prompts, live, moveVars, seriesVars, fs, tasks,
              crashed, inputs, fileNameInput, episodeNumberOutput, unitInput,
              consoleLog>>

\* the replace loop runs on the name, and once more on what it returned
Sanitize ==
  /\ unitInput.fn = "sanitize"
  /\ unitOutput = None
  /\ unitOutput' = Some([ once |-> ApplyReplaces(unitInput.name, 1),
                          twice |-> ApplyReplaces(ApplyReplaces(unitInput.name, 1), 1) ])
  /\ NamingFrame

CallGenerateEpisodeNumber ==
  /\ unitInput.fn = "generateEpisodeNumber"
  /\ unitOutput = None
  /\ unitOutput' = Some(generateEpisodeNumber(unitInput.episodeNumber,
                                              unitInput.episodesInSeason))
  /\ NamingFrame

CallGenerateEpisodeName ==
  /\ unitInput.fn = "generateEpisodeName"
  /\ unitOutput = None
  /\ unitOutput' = Some(generateEpisodeName(unitInput.seriesName, unitInput.seasonFolder,
                                            unitInput.seasonNumber, unitInput.fileName,
                                            unitInput.episodesInSeason, None))
  /\ NamingFrame

\* the season sections of the review, in the order of the list, and its
\* selectable entries
CallReviewSections ==
  /\ unitInput.fn = "reviewSections"
  /\ unitOutput = None
  /\ unitOutput' =
       LET seasonMapping == generateEpisodeNames(unitInput.store, <<Str_tv>>,
                                                 SeriesDetails(1))[1]
       IN Some([ seasons |-> SeasonKeys(seasonMapping),
                 choices |-> ReviewChoices(seasonMapping) ])
  /\ NamingFrame

NextNaming ==
  Sanitize \/ CallGenerateEpisodeNumber \/ CallGenerateEpisodeName \/ CallReviewSections

SpecNaming == InitNaming /\ [][NextNaming]_vars

(***************************************************************************)
(* The purge and the hoist on a store of their own: the season folder S1   *)
(* holds a video and readme.txt; the folder A holds a text file and a      *)
(* folder B with a text file of the same name and a video with an          *)
(* upper-case extension. The user enters folders, purges and hoists.       *)
(***************************************************************************)
MaxFilesInputs == 3

Str_B == <<"B">>

FilesFs ==
  [ dirs |-> {<<>>, <<Str_tv>>, <<Str_tv, Str_S1>>, <<Str_tv, Str_A>>,
              <<Str_tv, Str_A, Str_B>>},
    files |-> {<<Str_tv, Str_S1, Str_Showe01mkv>>,
               <<Str_tv, Str_S1, Str_readmetxt>>, <<Str_tv, Str_A, Str_ntxt>>,
               <<Str_tv, Str_A, Str_B, Str_ntxt>>, <<Str_tv, Str_A, Str_B, Str_E1MKV>>} ]

InitFiles ==
  /\ currentDirectory = StartDirectory
  /\ highlightedFolder = DotDot
  /\ currentPrompt = "folder-selection"
  /\ prompts = [f \in PromptFields |-> None]
  /\ live = {}
  /\ currentFolderToMove = None
  /\ currentMoveTarget = None
  /\ currentSeriesDirectory = None
  /\ currentSeriesLanguage = None
  /\ currentSeriesName = None
  /\ currentSeries = None
  /\ currentEpisodeRenames = None
  /\ currentEpisodeAssign = None
  /\ fs = FilesFs
  /\ tasks = <<MainMenuTask(StartDirectory)>>
  /\ crashed = FALSE
  /\ inputs = MaxFilesInputs
  /\ fileNameInput = <<>>
  /\ episodeNumberOutput = None
  /\ unitInput = NoCall
  /\ unitOutput = None
  /\ consoleLog = None

NextFiles ==
  \/ MainMenuListed \/ SubmitFolderSelection \/ OrphanDone
  \/ KeyHoist \/ HoistListed \/ AnswerHoist \/ HoistMoveDone \/ HoistFoldersListed
  \/ HoistRimrafDone \/ CancelHoist \/ BackspaceHoist
  \/ KeyPurge \/ PurgeListed \/ AnswerPurge \/ PurgeUnlinkDone \/ CancelPurge
  \/ BackspacePurge

SpecFiles == InitFiles /\ [][NextFiles]_vars

(***************************************************************************)
(* The listing functions on their own: getFileNames, getFolderNames and    *)
(* getAllFilesInFolder (1591-1643) are called on a directory of a store    *)
(* drawn from the trees over a few paths, with entries whose stat fails.   *)
(***************************************************************************)
Str_d == <<"d">>
Str_s == <<"s">>
Str_t == <<"t">>
Str_a == <<"a">>

\* the paths a listing store may hold below the directory /d
ListingPaths ==
  { <<Str_d, Str_a>>, <<Str_d, Str_s>>, <<Str_d, Str_s, Str_a>>, <<Str_d, Str_s, Str_t>>,
    <<Str_d, Str_s, Str_t, Str_a>> }

\* the trees over these paths: every entry lies in a directory, an entry is a
\* file or a directory, and stat may fail on children of /d
ListingStores ==
  { f \in [ dirs : {{<<>>, <<Str_d>>} \cup ds : ds \in SUBSET ListingPaths},
            files : SUBSET ListingPaths,
            noStat : SUBSET {<<Str_d, Str_a>>, <<Str_d, Str_s>>} ] :
      /\ f.dirs \cap f.files = {}
      /\ \A e \in (f.dirs \cup f.files) \ {<<>>} : dirname(e) \in f.dirs
      /\ f.noStat \subseteq f.dirs \cup f.files }

\* the directories the functions are called on: /d, a folder of it, and a path
\* that may not exist
ListingCalls ==
  { [fn |-> fn, basePath |-> basePath] :
      fn \in {"listEntries", "getAllFilesInFolder"},
      basePath \in {<<Str_d>>, <<Str_d, Str_s>>, <<Str_d, Str_a>>} }

InitListing ==
  /\ currentDirectory = StartDirectory
  /\ highlightedFolder = DotDot
  /\ currentPrompt = "folder-selection"
  /\ prompts = [f \in PromptFields |-> None]
  /\ live = {}
  /\ currentFolderToMove = None
  /\ currentMoveTarget = None
  /\ currentSeriesDirectory = None
  /\ currentSeriesLanguage = None
  /\ currentSeriesName = None
  /\ currentSeries = None
  /\ currentEpisodeRenames = None
  /\ currentEpisodeAssign = None
  /\ fs \in ListingStores
  /\ tasks = <<>>
  /\ crashed = FALSE
  /\ inputs = 0
  /\ fileNameInput = <<>>
  /\ episodeNumberOutput = None
  /\ unitInput \in ListingCalls
  /\ unitOutput = None
  /\ consoleLog = None

\* the two lists promptMainMenu asks for (1124-1127)
ListEntries ==
  /\ unitInput.fn = "listEntries"
  /\ unitOutput = None
  /\ unitOutput' = Some([ files |-> getFileNames(fs, unitInput.basePath),
                          folders |-> getFolderNames(fs, unitInput.basePath) ])
  /\ NamingFrame

CallGetAllFilesInFolder ==
  /\ unitInput.fn = "getAllFilesInFolder"
  /\ unitOutput = None
  /\ unitOutput' = Some(getAllFilesInFolder(fs, unitInput.basePath))
  /\ NamingFrame

NextListing == ListEntries \/ CallGetAllFilesInFolder

SpecListing == InitListing /\ [][NextListing]_vars

(***************************************************************************)
(* The move of a folder on a store of its own: /tv holds the folder S1     *)
(* with a video, a folder S10 whose name starts with S1, and a folder A    *)
(* that holds a folder named S1 already. The user enters folders, presses  *)
(* m and browses the destinations, accepts or leaves.                      *)
(***************************************************************************)
MaxMoveInputs == 4

MoveFs ==
  [ dirs |-> {<<>>, <<Str_tv>>, <<Str_tv, Str_S1>>, <<Str_tv, Str_S10>>,
              <<Str_tv, Str_A>>, <<Str_tv, Str_A, Str_S1>>},
    files |-> {<<Str_tv, Str_S1, Str_e1mkv>>} ]

InitMove ==
  /\ currentDirectory = StartDirectory
  /\ highlightedFolder = DotDot
  /\ currentPrompt = "folder-selection"
  /\ prompts = [f \in PromptFields |-> None]
  /\ live = {}
  /\ currentFolderToMove = None
  /\ currentMoveTarget = None
  /\ currentSeriesDirectory = None
  /\ currentSeriesLanguage = None
  /\ currentSeriesName = None
  /\ currentSeries = None
  /\ currentEpisodeRenames = None
  /\ currentEpisodeAssign = None
  /\ fs = MoveFs
  /\ tasks = <<MainMenuTask(StartDirectory)>>
  /\ crashed = FALSE
  /\ inputs = MaxMoveInputs
  /\ fileNameInput = <<>>
  /\ episodeNumberOutput = None
  /\ unitInput = NoCall
  /\ unitOutput = None
  /\ consoleLog = None

NextMove ==
  \/ MainMenuListed \/ SubmitFolderSelection
  \/ KeyMove \/ MoveFolderListed \/ SubmitMoveFolder \/ CancelMoveFolder
  \/ KeyAcceptMove \/ MoveFolderDone \/ BackspaceMove

SpecMove == InitMove /\ [][NextMove]_vars

(***************************************************************************)
(* handleKeyPress on its own (1658-1796): one keypress event is passed     *)
(* through the eight tests of this.currentPrompt in the order of the code, *)
(* each handler reading the state its predecessor left. A handler acts on  *)
(* the keys it tests for; what it calls sets this.currentPrompt before its *)
(* first await. Exceptions are left out: a handler that throws ends the    *)
(* event.                                                                  *)
(***************************************************************************)
\* the values of this.currentPrompt (1075-1087)
PromptStates ==
  {"folder-selection", "rename", "create-folder", "delete-folder", "series-language",
   "series-name", "series-suggestions", "episode-renames", "assign-episode",
   "move-folder", "non-video-purge", "hoist-files"}

\* the keys of an event: the letters the handlers test for, backspace, and a
\* key no handler tests for
Keys == {"r", "c", "d", "h", "m", "u", "p", "e", "s", "a", "backspace", "x"}

\* the handler of a state called with a key: does it take an action, and
\* this.currentPrompt when it returns
handler(state, key) ==
  CASE state = "folder-selection" ->
         [ acts |-> key \in {"r", "c", "d", "h", "m", "u", "p", "e", "s"},
           currentPrompt |-> CASE key = "r" -> "rename"
                               [] key = "c" -> "create-folder"
                               [] key = "d" -> "delete-folder"
                               [] key = "h" -> "hoist-files"
                               [] key = "m" -> "move-folder"
                               [] key = "p" -> "non-video-purge"
                               [] key = "s" -> "series-language"
                               [] OTHER -> "folder-selection" ]
    [] state = "move-folder" ->
         [ acts |-> key \in {"a", "backspace"},
           currentPrompt |-> IF key = "backspace" THEN "folder-selection" ELSE state ]
    [] state \in {"hoist-files", "non-video-purge", "series-language"} ->
         [ acts |-> key = "backspace",
           currentPrompt |-> IF key = "backspace" THEN "folder-selection" ELSE state ]
    [] state = "series-suggestions" ->
         [ acts |-> key = "backspace",
           currentPrompt |-> IF key = "backspace" THEN "series-name" ELSE state ]
    [] state = "episode-renames" ->
         [ acts |-> key \in {"a", "backspace"},
           currentPrompt |-> CASE key = "backspace" -> "series-suggestions"
                               [] key = "a" -> "folder-selection"
                               [] OTHER -> state ]
    [] state = "assign-episode" ->
         [ acts |-> key = "backspace",
           currentPrompt |-> IF key = "backspace" THEN "episode-renames" ELSE state ]
    [] OTHER -> [acts |-> FALSE, currentPrompt |-> state]

\* the tests of handleKeyPress taken in the opposite order
RECURSIVE handleKeyPressLastTestFirst(_, _, _, _)
handleKeyPressLastTestFirst(i, state, key, out) ==
  LET tests == << "assign-episode", "episode-renames", "series-suggestions",
                  "series-language", "non-video-purge", "hoist-files", "move-folder",
                  "folder-selection" >>
  IN IF i > Len(tests) THEN [out EXCEPT !.currentPrompt = state]
     ELSE IF state # tests[i] THEN handleKeyPressLastTestFirst(i + 1, state, key, out)
     ELSE LET h == handler(state, key)
          IN handleKeyPressLastTestFirst(i + 1, h.currentPrompt, key,
                            [ out EXCEPT !.called = Append(@, state),
                                         !.acted = IF h.acts THEN Append(@, state) ELSE @ ])

\* the tests of handleKeyPress from the i-th on, this.currentPrompt being
\* state: the handlers called, those that acted, and the state left
RECURSIVE handleKeyPress(_, _, _, _)
handleKeyPress(i, state, key, out) ==
  LET tests == << "folder-selection", "move-folder", "hoist-files", "non-video-purge",
                  "series-language", "series-suggestions", "episode-renames",
                  "assign-episode" >>
  IN IF i > Len(tests) THEN [out EXCEPT !.currentPrompt = state]
     ELSE IF state # tests[i] THEN handleKeyPress(i + 1, state, key, out)
     ELSE LET h == handler(state, key)
          IN handleKeyPress(i + 1, h.currentPrompt, key,
                            [ out EXCEPT !.called = Append(@, state),
                                         !.acted = IF h.acts THEN Append(@, state) ELSE @ ])

InitKeys ==
  /\ currentDirectory = StartDirectory
  /\ highlightedFolder = DotDot
  /\ currentPrompt \in PromptStates
  /\ prompts = [f \in PromptFields |-> None]
  /\ live = {}
  /\ currentFolderToMove = None
  /\ currentMoveTarget = None
  /\ currentSeriesDirectory = None
  /\ currentSeriesLanguage = None
  /\ currentSeriesName = None
  /\ currentSeries = None
  /\ currentEpisodeRenames = None
  /\ currentEpisodeAssign = None
  /\ fs = InitialFs
  /\ tasks = <<>>
  /\ crashed = FALSE
  /\ inputs = 0
  /\ fileNameInput = <<>>
  /\ episodeNumberOutput = None
  /\ unitInput \in {[fn |-> "handleKeyPress", currentPrompt |-> currentPrompt, key |-> key] :
                      key \in Keys}
  /\ unitOutput = None
  /\ consoleLog = None

\* the event is handled
CallHandleKeyPress ==
  /\ unitInput.fn = "handleKeyPress"
  /\ unitOutput = None
  /\ LET out == handleKeyPress(1, currentPrompt, unitInput.key,
                               [called |-> <<>>, acted |-> <<>>, currentPrompt |-> currentPrompt])
     IN /\ unitOutput' = Some(out)
        /\ currentPrompt' = out.currentPrompt
  /\ UNCHANGED <<navVars, prompts, live, moveVars, seriesVars, fs, tasks, crashed, inputs,
                 fileNameInput, episodeNumberOutput, unitInput, consoleLog>>

NextKeys == CallHandleKeyPress

SpecKeys == InitKeys /\ [][NextKeys]_vars

(***************************************************************************)
(* Properties                                                              *)
(***************************************************************************)
\* a letter of lead directly followed by a digit, at position i of s
LeadAt(s, lead, i) == i < Len(s) /\ s[i] \in lead /\ IsDigit(s[i + 1])

\* the number written by the longest run of digits of s that starts at i
NumberAt(s, i) ==
  LET j == CHOOSE k \in i..Len(s) :
             /\ \A d \in i..k : IsDigit(s[d])
             /\ (k = Len(s) \/ ~IsDigit(s[k + 1]))
  IN parseInt(SubSeq(s, i, j))

\* the leftmost of a set of positions
Leftmost(positions) == CHOOSE i \in positions : \A j \in positions : i <= j

\* what the parser is to return for s: the number behind the leftmost E or e
\* with digits; without one, the number behind the leftmost x or X with
\* digits; without one, the leftmost number; otherwise nothing
ExpectedEpisodeNumber(s) ==
  LET atE == {i \in 1..Len(s) : LeadAt(s, {"e", "E"}, i)}
      atX == {i \in 1..Len(s) : LeadAt(s, {"x", "X"}, i)}
      atDigit == {i \in 1..Len(s) : IsDigit(s[i])}
  IN IF atE # {} THEN Some(NumberAt(s, Leftmost(atE) + 1))
     ELSE IF atX # {} THEN Some(NumberAt(s, Leftmost(atX) + 1))
     ELSE IF atDigit # {} THEN Some(NumberAt(s, Leftmost(atDigit)))
     ELSE None

C1_OneLivePromptOfCurrentState ==
  /\ Cardinality(live) <= 1
  /\ \A prompt \in live : prompt.kind = currentPrompt

\* the number of tasks in flight at one of the await points pcs
InFlightAt(pcs) == Cardinality({i \in 1..Len(tasks) : tasks[i].pc \in pcs})

\* the await points of the file operations of the terminal actions (those of
\* a hoist are one action)
TerminalAwaits ==
  { {"promptRename"}, {"promptCreateFolder"}, {"promptDeleteFolder"}, {"moveFolder"},
    {"hoistFiles.moves", "hoistFiles.folders", "hoistFiles.rimraf"},
    {"promptNonVideoPurge.unlinks"} }

\* folder-selection is entered: promptMainMenu() has set the state and is
\* listing the directory for its prompt
FolderSelectionEntered ==
  currentPrompt = "folder-selection" /\ InFlightAt({"promptMainMenu"}) > 0

\* C2: after a terminal action was started the workflow re-enters
\* folder-selection, whether its file operation succeeds or fails: when the
\* operations of a rename, create-folder, delete-folder, move, hoist or purge
\* settle in a process that lives on, and when the batch rename is issued,
\* folder-selection is entered
C2_TerminalActionReturns ==
  [][ /\ \A awaits \in TerminalAwaits :
           (~crashed' /\ InFlightAt(awaits)' < InFlightAt(awaits))
             => FolderSelectionEntered'
      /\ InFlightAt({"renameEpisodes"})' > InFlightAt({"renameEpisodes"})
           => FolderSelectionEntered' ]_vars

\* the positions of the SeasonMapping: a season and an index of its list
MappingPositions(seasonMapping) ==
  UNION {{<<season, k>> : k \in 1..Len(seasonMapping[season].episodeMappings)} :
           season \in DOMAIN seasonMapping}

MappingAt(seasonMapping, position) ==
  seasonMapping[position[1]].episodeMappings[position[2]]

\* C3: every EpisodeMapping of the SeasonMapping, after the build and after
\* manual assignments, has rename = (originalPath # updatedPath)
C3_RenameIffPathsDiffer ==
  currentEpisodeRenames # None =>
    \A position \in MappingPositions(currentEpisodeRenames[1]) :
      LET mapping == MappingAt(currentEpisodeRenames[1], position)
      IN mapping.value.rename <=>
           (mapping.value.originalPath # mapping.value.updatedPath)

\* after a manual assignment (b.mkv has no number of its own) the mapping
\* holds an entry to rename and an entry to leave
C3_Witness ==
  /\ currentEpisodeRenames # None
  /\ \E position \in MappingPositions(currentEpisodeRenames[1]) :
       LET mapping == MappingAt(currentEpisodeRenames[1], position)
       IN /\ basename(mapping.value.originalPath) = Str_bmkv
          /\ mapping.value.episode # None
          /\ mapping.value.rename
  /\ \E position \in MappingPositions(currentEpisodeRenames[1]) :
       ~MappingAt(currentEpisodeRenames[1], position).value.rename

\* the matched entries of a list come first, and the entries without a match
\* follow in the order of the listing (ascending names)
MatchedFirst(episodeMappings) ==
  /\ \A i, j \in 1..Len(episodeMappings) :
       (i < j /\ episodeMappings[i].value.episode = None)
         => episodeMappings[j].value.episode = None
  /\ \A i, j \in 1..Len(episodeMappings) :
       (/\ i < j
        /\ episodeMappings[i].value.episode = None
        /\ episodeMappings[j].value.episode = None)
         => ~StrLess(basename(episodeMappings[j].value.originalPath),
                     basename(episodeMappings[i].value.originalPath))

\* C4 (as stated): in every season's list the matched entries come first in
\* strictly ascending order of episode number, the entries without a match
\* follow in their original relative order
C4_StrictlyAscending ==
  currentEpisodeRenames # None =>
    \A season \in DOMAIN currentEpisodeRenames[1] :
      LET episodeMappings == currentEpisodeRenames[1][season].episodeMappings
      IN /\ MatchedFirst(episodeMappings)
         /\ \A i, j \in 1..Len(episodeMappings) :
              (/\ i < j
               /\ episodeMappings[i].value.episode # None
               /\ episodeMappings[j].value.episode # None)
                => episodeMappings[i].value.episode[1].airedEpisodeNumber
                     < episodeMappings[j].value.episode[1].airedEpisodeNumber

\* C4 (amended): in every season's list the matched entries come first in
\* ascending order of episode number, entries of one episode next to each
\* other, and the entries without a match follow in their original relative
\* order
C4_Ascending ==
  currentEpisodeRenames # None =>
    \A season \in DOMAIN currentEpisodeRenames[1] :
      LET episodeMappings == currentEpisodeRenames[1][season].episodeMappings
      IN /\ MatchedFirst(episodeMappings)
         /\ \A i, j \in 1..Len(episodeMappings) :
              (/\ i < j
               /\ episodeMappings[i].value.episode # None
               /\ episodeMappings[j].value.episode # None)
                => episodeMappings[i].value.episode[1].airedEpisodeNumber
                     <= episodeMappings[j].value.episode[1].airedEpisodeNumber

\* after a manual assignment of b.mkv: a list of two matched entries, e1.mkv
\* in front of b.mkv (the directory lists b.mkv first), and of an entry
\* without a match
C4_Witness ==
  /\ currentEpisodeRenames # None
  /\ \E season \in DOMAIN currentEpisodeRenames[1] :
       LET episodeMappings == currentEpisodeRenames[1][season].episodeMappings
       IN /\ Len(episodeMappings) = 3
          /\ basename(episodeMappings[1].value.originalPath) = Str_e1mkv
          /\ basename(episodeMappings[2].value.originalPath) = Str_bmkv
          /\ episodeMappings[2].value.episode # None
          /\ episodeMappings[3].value.episode = None

\* C5: cancelling a state of the series pipeline, with escape or backspace,
\* leads to its predecessor: series-language to folder-selection, series-name
\* to series-language, series-suggestions to series-name, episode-renames to
\* series-suggestions (in series-name, a line input, backspace edits the line
\* and only escape cancels)
C5_CancelLeadsToPredecessor ==
  [][ /\ (currentPrompt = "series-language"
            /\ (CancelSeriesLanguage \/ BackspaceSeriesLanguage))
           => currentPrompt' = "folder-selection"
      /\ (currentPrompt = "series-name" /\ CancelSeriesName)
           => currentPrompt' = "series-language"
      /\ (currentPrompt = "series-suggestions"
            /\ (CancelSeriesSuggestions \/ BackspaceSeriesSuggestions))
           => currentPrompt' = "series-name"
      /\ (currentPrompt = "episode-renames"
            /\ (CancelEpisodeRenames \/ BackspaceEpisodeRenames))
           => currentPrompt' = "series-suggestions" ]_vars

\* C6: leaving assign-episode, by choosing an episode or with escape or
\* backspace, returns to episode-renames, and the SeasonMapping keeps every
\* entry but those of the file that was selected
C6_AssignReturnsToReview ==
  [][ (currentPrompt = "assign-episode"
         /\ (SubmitEpisodeAssign \/ CancelEpisodeAssign \/ BackspaceEpisodeAssign))
        => /\ currentPrompt' = "episode-renames"
           /\ currentEpisodeRenames # None =>
                /\ currentEpisodeRenames' # None
                /\ \A position \in MappingPositions(currentEpisodeRenames[1]) :
                     LET mapping == MappingAt(currentEpisodeRenames[1], position)
                     IN mapping.name # currentEpisodeAssign[1].name
                          => \E kept \in MappingPositions(currentEpisodeRenames'[1]) :
                               MappingAt(currentEpisodeRenames'[1], kept) = mapping ]_vars


\* how often the rename op is among the renames issued
TimesIssued(issued, op) == Cardinality({k \in 1..Len(issued) : issued[k] = op})

\* C7: accept in episode-renames hands the current SeasonMapping to the batch
\* rename, which issues the rename from originalPath to updatedPath once for
\* every mapping with the rename flag and none for a mapping without it
C7_RenamesIssuedForFlaggedOnly ==
  /\ [](\A i \in TasksAt("renameEpisodes") :
          LET positions == MappingPositions(tasks[i].episodeRenames)
              Op(position) ==
                LET mapping == MappingAt(tasks[i].episodeRenames, position)
                IN RenameOp(mapping.value.originalPath, mapping.value.updatedPath)
              flagged == {position \in positions :
                            MappingAt(tasks[i].episodeRenames, position).value.rename}
          IN /\ \A position \in flagged :
                  TimesIssued(tasks[i].issued, Op(position))
                    = Cardinality({other \in flagged : Op(other) = Op(position)})
             /\ \A position \in positions \ flagged :
                  \A k \in 1..Len(tasks[i].issued) :
                    tasks[i].issued[k].from
                      # MappingAt(tasks[i].episodeRenames, position).value.originalPath
             /\ Len(tasks[i].issued) = Cardinality(flagged))
  /\ [][InFlightAt({"renameEpisodes"})' > InFlightAt({"renameEpisodes"})
          => \E i \in TasksAt("renameEpisodes")' :
               Some(tasks'[i].episodeRenames) = currentEpisodeRenames]_vars

\* an accepted batch over a mapping with flagged and unflagged entries has
\* renamed its files
C7_Witness ==
  \E i \in TasksAt("renameEpisodes") :
    /\ tasks[i].issued # <<>>
    /\ tasks[i].pending = <<>>
    /\ \A k \in 1..Len(tasks[i].issued) : tasks[i].issued[k].to \in fs.files
    /\ \E position \in MappingPositions(tasks[i].episodeRenames) :
         ~MappingAt(tasks[i].episodeRenames, position).value.rename

\* C8: in hoist-files, non-video-purge and delete-folder, declining the
\* confirmation or cancelling with escape or backspace returns to
\* folder-selection, and the step changes no file and starts no file operation
C8_DeclineOrCancelReturns ==
  [][ (\/ /\ currentPrompt = "hoist-files"
          /\ \/ CancelHoist
             \/ BackspaceHoist
             \/ (AnswerHoist /\ InFlightAt({"hoistFiles.moves", "hoistFiles.folders"})'
                                  = InFlightAt({"hoistFiles.moves", "hoistFiles.folders"}))
       \/ /\ currentPrompt = "non-video-purge"
          /\ \/ CancelPurge
             \/ BackspacePurge
             \/ (AnswerPurge /\ InFlightAt({"promptNonVideoPurge.unlinks"})'
                                  = InFlightAt({"promptNonVideoPurge.unlinks"}))
       \/ /\ currentPrompt = "delete-folder"
          /\ \/ CancelDelete
             \/ BackspaceIgnored
             \/ (AnswerDelete /\ InFlightAt({"promptDeleteFolder"})'
                                   = InFlightAt({"promptDeleteFolder"})))
      => /\ currentPrompt' = "folder-selection"
         /\ fs' = fs
         /\ \A awaits \in TerminalAwaits : InFlightAt(awaits)' = InFlightAt(awaits) ]_vars

\* C9: no move is committed whose destination is the moved folder itself or a
\* path under the moved folder
C9_NoMoveIntoItself ==
  \A i \in TasksAt("moveFolder") : ~IsPrefix(tasks[i].folderToMove, tasks[i].target)

\* C11: the sanitized form of a string over the replaced characters (and others)
\* holds none of the replaced characters, and the sanitizer returns its own
\* output unchanged
C11_SanitizerCleansAndIsIdempotent ==
  (unitInput.fn = "sanitize" /\ unitOutput # None) =>
    /\ \A k \in 1..Len(unitOutput[1].once) : unitOutput[1].once[k] \notin ReplacedChars
    /\ unitOutput[1].twice = unitOutput[1].once

\* a string with the colon-space pair and an umlaut has been sanitized
C11_Witness ==
  /\ unitInput.fn = "sanitize"
  /\ unitInput.name = <<":", " ", "ä">>
  /\ unitOutput = Some([once |-> <<"-", "a", "e">>, twice |-> <<"-", "a", "e">>])

\* n in decimal, with zeros in front up to the width
RECURSIVE ZeroPadded(_, _)
ZeroPadded(n, width) ==
  IF width <= 1 \/ n >= 10
    THEN (IF n >= 10 THEN ZeroPadded(n \div 10, width - 1) ELSE <<>>) \o <<Digits[(n % 10) + 1]>>
    ELSE <<"0">> \o ZeroPadded(n, width - 1)

\* the episode of the season that has the number the parser takes from the name
ParsedEpisodes(call) ==
  LET parsed == ExpectedEpisodeNumber(call.fileName)
  IN IF parsed = None THEN {}
     ELSE {k \in 1..Len(call.episodesInSeason) :
             call.episodesInSeason[k].airedEpisodeNumber = parsed[1]}

HasVideoExtension(fileName) == toLowerCase(extname(fileName)) \in videoFileExtensions

\* C12: for a video file matched to an episode the proposed name is the
\* sanitized form of <series>.S<season, 2 digits>E<ordinal>.<title><lower-cased
\* extension>, in the same season folder; Show.e01.mkv and Show.e02.mkv become
\* Show.S01E01.Pilot.mkv and Show.S01E02.Second.Episode.mkv
C12_ProposedFileName ==
  (unitInput.fn = "generateEpisodeName" /\ unitOutput # None) =>
    LET call == unitInput
        mapping == unitOutput[1]
        count == Len(call.episodesInSeason)
    IN /\ mapping.value.episode # None =>
            LET episode == mapping.value.episode[1]
                ordinal == ZeroPadded(episode.airedEpisodeNumber, IF count < 100 THEN 2 ELSE 3)
                proposed == ApplyReplaces(call.seriesName \o <<".", "S">>
                                            \o ZeroPadded(call.seasonNumber, 2) \o <<"E">>
                                            \o ordinal \o <<".">> \o episode.episodeName
                                            \o toLowerCase(extname(call.fileName)), 1)
            IN /\ mapping.name = proposed
               /\ mapping.value.updatedPath = Append(call.seasonFolder, proposed)
               /\ dirname(mapping.value.updatedPath) = dirname(mapping.value.originalPath)
       /\ (call.seriesName = Str_Show /\ call.seasonNumber = 1) =>
            /\ call.fileName = Str_Showe01mkv => mapping.name = Str_ShowS01E01Pilotmkv
            /\ call.fileName = Str_Showe02mkv => mapping.name = Str_ShowS01E02SecondEpisodemkv

\* the second file of the example has been named
C12_Witness ==
  /\ unitInput.fn = "generateEpisodeName"
  /\ unitInput.fileName = Str_Showe02mkv
  /\ unitOutput # None
  /\ unitOutput[1].value.episode # None
  /\ unitOutput[1].value.updatedPath = <<Str_tv, Str_S1, Str_ShowS01E02SecondEpisodemkv>>

\* C13: generateEpisodeNumber(n, count) is n padded with zeros to 2 digits when
\* count < 100 and to 3 digits when count >= 100; (7, 45) gives "07", (7, 150)
\* gives "007", and count = 100 gives 3 digits
C13_EpisodeNumberPadding ==
  (unitInput.fn = "generateEpisodeNumber" /\ unitOutput # None) =>
    LET n == unitInput.episodeNumber
        count == unitInput.episodesInSeason
    IN /\ count < 100 => unitOutput[1] = ZeroPadded(n, 2)
       /\ count >= 100 => unitOutput[1] = ZeroPadded(n, 3)
       /\ (n = 7 /\ count = 45) => unitOutput[1] = <<"0", "7">>
       /\ (n = 7 /\ count = 150) => unitOutput[1] = <<"0", "0", "7">>
       /\ (n = 7 /\ count = 100) => unitOutput[1] = <<"0", "0", "7">>

\* the number 7 has been padded for a season of exactly 100 episodes
C13_Witness ==
  /\ unitInput = [fn |-> "generateEpisodeNumber", episodeNumber |-> 7, episodesInSeason |-> 100]
  /\ unitOutput = Some(<<"0", "0", "7">>)

\* C14: a file yields the unchanged mapping when its extension is no video
\* extension, when no episode number is parsed from its name, and when the
\* season has no episode of the parsed number
C14_UnchangedMappingCases ==
  (unitInput.fn = "generateEpisodeName" /\ unitOutput # None) =>
    LET call == unitInput
        mapping == unitOutput[1]
    IN (\/ ~HasVideoExtension(call.fileName)
        \/ ExpectedEpisodeNumber(call.fileName) = None
        \/ ParsedEpisodes(call) = {})
         => /\ mapping.value.updatedPath = mapping.value.originalPath
            /\ mapping.value.originalPath = Append(call.seasonFolder, call.fileName)
            /\ mapping.value.episode = None
            /\ mapping.value.rename = FALSE
            /\ mapping.name = call.fileName

\* a video file whose number matches no episode of the season has been mapped
C14_Witness ==
  /\ unitInput.fn = "generateEpisodeName"
  /\ unitInput.fileName = Str_e3mkv
  /\ unitInput.episodesInSeason # <<>>
  /\ unitOutput # None
  /\ unitOutput[1].value.episode = None

HasDigit(s) == \E k \in 1..Len(s) : IsDigit(s[k])

\* the files of the store that lie directly in the series directory or in a
\* subfolder of it whose name has no digit
OutsideSeasonFolders(f, seriesDirectory) ==
  {file \in f.files :
     \/ dirname(file) = seriesDirectory
     \/ /\ dirname(dirname(file)) = seriesDirectory
        /\ Len(file) = Len(seriesDirectory) + 2
        /\ ~HasDigit(basename(dirname(file)))}

\* C15: a file directly in the series directory, or in a subfolder of it whose
\* name has no digit, is in no entry of the SeasonMapping, no rename of an
\* accepted batch starts at it, and it stays where it is
C15_FilesOutsideSeasonFoldersUntouched ==
  currentSeriesDirectory # None =>
    \A file \in OutsideSeasonFolders(SeriesFs, currentSeriesDirectory[1]) :
      /\ currentEpisodeRenames # None =>
           \A position \in MappingPositions(currentEpisodeRenames[1]) :
             MappingAt(currentEpisodeRenames[1], position).value.originalPath # file
      /\ \A i \in TasksAt("renameEpisodes") :
           /\ \A position \in MappingPositions(tasks[i].episodeRenames) :
                MappingAt(tasks[i].episodeRenames, position).value.originalPath # file
           /\ \A k \in 1..Len(tasks[i].issued) : tasks[i].issued[k].from # file
      /\ file \in fs.files

\* a batch built next to e2.mkv in /tv and in /tv/A was accepted and has
\* renamed its files
C15_Witness ==
  /\ OutsideSeasonFolders(SeriesFs, StartDirectory)
       = {<<Str_tv, Str_e2mkv>>, <<Str_tv, Str_A, Str_e2mkv>>}
  /\ currentSeriesDirectory = Some(StartDirectory)
  /\ \E i \in TasksAt("renameEpisodes") :
       /\ tasks[i].issued # <<>>
       /\ tasks[i].pending = <<>>
       /\ \A k \in 1..Len(tasks[i].issued) : tasks[i].issued[k].to \in fs.files

\* the entry the automatic build gives the file of a mapping
BuiltEntry(mapping) ==
  LET seriesDetails == SeriesDetails(currentSeries[1].id)
  IN generateEpisodeName(seriesDetails.seriesName, mapping.value.seasonFolder,
                         mapping.value.seasonNumber, basename(mapping.value.originalPath),
                         EpisodesOfSeason(seriesDetails, mapping.value.seasonNumber), None)

\* the entries that a manual assignment has made: matched, and not what the
\* build gives the file
ManualPositions(seasonMapping) ==
  {position \in MappingPositions(seasonMapping) :
     LET mapping == MappingAt(seasonMapping, position)
     IN mapping.value.episode # None /\ mapping # BuiltEntry(mapping)}

\* C16: the SeasonMapping is built when episode-renames is entered after a
\* series was selected in series-suggestions (which has cleared it) and only
\* then; re-entering episode-renames with a SeasonMapping does not rebuild it;
\* and an entry made by a manual assignment stays in the structure until the
\* series is selected anew or that file is assigned again
C16_BuiltOnSelectionKeptOnReassignment ==
  [][ /\ SubmitSeriesSuggestions => currentEpisodeRenames' = None
      /\ (currentEpisodeRenames = None /\ currentEpisodeRenames' # None)
           => (EpisodeNamesGenerated /\ currentPrompt = "episode-renames")
      /\ (currentEpisodeRenames # None /\ (SeriesDetailsLoaded \/ BackspaceEpisodeAssign))
           => currentEpisodeRenames' = currentEpisodeRenames
      /\ (currentEpisodeRenames # None /\ currentEpisodeRenames' # None /\ currentSeries # None)
           => \A position \in ManualPositions(currentEpisodeRenames[1]) :
                LET mapping == MappingAt(currentEpisodeRenames[1], position)
                IN \/ /\ SubmitEpisodeAssign
                      /\ currentEpisodeAssign[1].value.originalPath
                           = mapping.value.originalPath
                   \/ \E kept \in MappingPositions(currentEpisodeRenames'[1]) :
                        MappingAt(currentEpisodeRenames'[1], kept) = mapping ]_vars

\* the originalPaths of the entries of one season
OriginalPaths(seasonMapping, season) ==
  {seasonMapping[season].episodeMappings[k].value.originalPath :
     k \in 1..Len(seasonMapping[season].episodeMappings)}

\* the entries of a SeasonMapping for the files other than file
EntriesOfOthers(seasonMapping, file) ==
  {MappingAt(seasonMapping, position) : position \in
     {p \in MappingPositions(seasonMapping) :
        MappingAt(seasonMapping, p).value.originalPath # file}}

\* C17: a manual assignment for the selected file changes that file's entry
\* only: the entries of the other files, of its season and of other seasons,
\* are the same before and after, and so is the set of originalPaths of the
\* season
C17_AssignmentChangesOneEntry ==
  [][ (/\ SubmitEpisodeAssign
       /\ currentEpisodeRenames # None
       /\ currentEpisodeRenames' # None)
        => LET file == currentEpisodeAssign[1].value.originalPath
               season == currentEpisodeAssign[1].value.seasonNumber
           IN /\ EntriesOfOthers(currentEpisodeRenames'[1], file)
                   = EntriesOfOthers(currentEpisodeRenames[1], file)
              /\ DOMAIN currentEpisodeRenames'[1] = DOMAIN currentEpisodeRenames[1]
              /\ OriginalPaths(currentEpisodeRenames'[1], season)
                   = OriginalPaths(currentEpisodeRenames[1], season) ]_vars

\* the bulk operations (hoist moves and removals, purge deletions, batch
\* renames) with a per-item operation in flight, awaited or not
BatchItemsInFlight ==
  {i \in 1..Len(tasks) :
     /\ tasks[i].pc \in {"hoistFiles.moves", "hoistFiles.rimraf",
                         "promptNonVideoPurge.unlinks", "renameEpisodes", "orphans"}
     /\ tasks[i].pending # <<>>}

\* C18: a bulk operation waits for all of its per-item operations before the
\* workflow proceeds: the listing of folder-selection is not read while an
\* item of a batch is in flight
C18_ListingAfterBatchItems ==
  [][MainMenuListed => BatchItemsInFlight = {}]_vars

\* the number of per-item operations of batches in flight, from task i on
RECURSIVE PendingItems(_, _)
PendingItems(ts, i) ==
  IF i > Len(ts) THEN 0
  ELSE (IF ts[i].pc \in {"hoistFiles.moves", "promptNonVideoPurge.unlinks",
                         "renameEpisodes", "orphans"}
          THEN Len(ts[i].pending) ELSE 0) + PendingItems(ts, i + 1)

\* an item of a batch (a hoist move, a purge deletion, a rename of the batch
\* rename) settles as failed: the file store stays as it is
BatchItemFailed ==
  /\ HoistMoveDone \/ PurgeUnlinkDone \/ RenameEpisodeDone
  /\ fs' = fs

\* C19: when the operation on one item of a batch fails, the failure is
\* logged and only that item is skipped: the process lives on and the
\* operations on the other items stay in flight
C19_FailedItemLoggedOthersProceed ==
  [][ BatchItemFailed
        => /\ consoleLog' # None
           /\ consoleLog' # consoleLog
           /\ ~crashed'
           /\ PendingItems(tasks', 1) = PendingItems(tasks, 1) - 1 ]_vars

\* a single-item operation settles as failed: the rename of promptRename or
\* the mkdir of promptCreateFolder leaves the file store as it is (a success
\* changes it), and so does the rimraf of promptDeleteFolder on an existing
\* folder
SingleItemFailed ==
  \/ /\ RenameDone
     /\ fs' = fs
     /\ \A i \in TasksAt("promptRename") : tasks[i].oldPath # tasks[i].newPath
  \/ /\ CreateFolderDone
     /\ fs' = fs
  \/ /\ DeleteDone
     /\ fs' = fs
     /\ \A i \in TasksAt("promptDeleteFolder") : tasks[i].filePath \in fs.dirs

\* C20: when a single-item operation fails the error is shown to the user,
\* the file store and the highlighted entry stay as they are, and the
\* workflow returns to folder-selection
C20_SingleItemFailureSurfaced ==
  [][ SingleItemFailed
        => /\ consoleLog' # None
           /\ consoleLog' # consoleLog
           /\ fs' = fs
           /\ highlightedFolder' = highlightedFolder
           /\ FolderSelectionEntered' ]_vars


(***************************************************************************)
(* C21: when the series search fails in series-suggestions, the message is *)
(* written and the series-name prompt is run for the directory and the     *)
(* language of the search; the main menu is not called, and no state is    *)
(* left in series-suggestions with neither the search in flight nor a      *)
(* prompt awaiting input.                                                  *)
(***************************************************************************)
\* the step ran the Select over the series found and wrote nothing
SearchSucceeded ==
  /\ prompts'.seriesSelectionPrompt # None
  /\ prompts'.seriesSelectionPrompt[1] \in live' \ live
  /\ consoleLog' = consoleLog
  /\ currentPrompt' = currentPrompt

C21_SearchFailureReprompts ==
  /\ [][ SeriesSearched /\ ~SearchSucceeded
           => /\ consoleLog' = Some(SeriesNotFoundMessage)
              /\ currentPrompt' = "series-name"
              /\ InFlightAt({"promptMainMenu"})' = InFlightAt({"promptMainMenu"})
              /\ \E i \in TasksAt("promptSeriesSuggestions") : \E p \in live' \ live :
                   /\ tasks' = RemoveAt(tasks, i)
                   /\ p.kind = "series-name"
                   /\ p.seriesDirectory = tasks[i].seriesDirectory
                   /\ p.seriesLanguage = tasks[i].seriesLanguage
                   /\ prompts'.seriesNamePrompt = Some(p) ]_vars
  /\ [](currentPrompt = "series-suggestions" /\ ~crashed
          => \/ TasksAt("promptSeriesSuggestions") # {}
             \/ LiveOf("series-suggestions") # {})

\* a state after a failed search: the message is on the screen and the
\* series-name prompt awaits input
C21_Witness ==
  /\ consoleLog = Some(SeriesNotFoundMessage)
  /\ currentPrompt = "series-name"
  /\ LiveOf("series-name") # {}
  /\ TasksAt("promptSeriesSuggestions") = {}


(***************************************************************************)
(* C22: for a directory that exists, the file list and the folder list     *)
(* computed for it partition its immediate children: both lists are        *)
(* returned, no name is listed twice, every child is in exactly one of     *)
(* them, and a child on which stat fails is in the file list.              *)
(***************************************************************************)
\* the names of the immediate children of basePath in the store f
ChildNames(f, basePath) ==
  {basename(e) : e \in {c \in Entries(f) : c # <<>> /\ dirname(c) = basePath}}

C22_ListsPartitionChildren ==
  (unitInput.fn = "listEntries" /\ unitOutput # None /\ unitInput.basePath \in fs.dirs)
    => LET lists == unitOutput[1]
           files == lists.files[1]
           folders == lists.folders[1]
       IN /\ lists.files # None /\ lists.folders # None
          /\ Cardinality(SeqToSet(files)) = Len(files)
          /\ Cardinality(SeqToSet(folders)) = Len(folders)
          /\ SeqToSet(files) \cup SeqToSet(folders) = ChildNames(fs, unitInput.basePath)
          /\ SeqToSet(files) \cap SeqToSet(folders) = {}
          /\ \A e \in NoStat(fs) :
               dirname(e) = unitInput.basePath => basename(e) \in SeqToSet(files)

\* /d was listed: it holds a folder on which stat fails next to a folder on
\* which it succeeds, and both lists are non-empty
C22_Witness ==
  /\ unitInput.fn = "listEntries" /\ unitOutput # None
  /\ unitInput.basePath = <<Str_d>>
  /\ <<Str_d, Str_a>> \in fs.dirs \cap NoStat(fs)
  /\ <<Str_d, Str_s>> \in fs.dirs \ NoStat(fs)
  /\ unitOutput[1].files = Some(<<Str_a>>)
  /\ unitOutput[1].folders = Some(<<Str_s>>)


(***************************************************************************)
(* C23: on a finite directory tree, getAllFilesInFolder of an existing     *)
(* directory returns (the recursion ends) exactly the absolute paths of    *)
(* the entries at any depth under it that are not folders, each path once. *)
(***************************************************************************)
\* the files of the store f at any depth under folderPath
FilesBelow(f, folderPath) ==
  {e \in f.files : IsPrefix(folderPath, e) /\ e # folderPath}

C23_FlattenReturnsEveryFileOnce ==
  ( /\ unitInput.fn = "getAllFilesInFolder" /\ unitOutput # None
    /\ unitInput.basePath \in fs.dirs /\ NoStat(fs) = {} )
    => LET returned == unitOutput[1]
       IN /\ returned # None
          /\ SeqToSet(returned[1]) = FilesBelow(fs, unitInput.basePath)
          /\ Len(returned[1]) = Cardinality(FilesBelow(fs, unitInput.basePath))

\* /d was flattened: it holds a file of its own and files one and two
\* folders down, and a file outside /d/s/t
C23_Witness ==
  /\ unitInput.fn = "getAllFilesInFolder" /\ unitOutput # None
  /\ unitInput.basePath = <<Str_d>> /\ NoStat(fs) = {}
  /\ fs.files = {<<Str_d, Str_a>>, <<Str_d, Str_s, Str_a>>, <<Str_d, Str_s, Str_t, Str_a>>}
  /\ unitOutput[1] = Some(<< <<Str_d, Str_a>>, <<Str_d, Str_s, Str_a>>,
                             <<Str_d, Str_s, Str_t, Str_a>> >>)


(***************************************************************************)
(* C24: the purge of folder F lists, each once, the files at any depth     *)
(* under F whose lower-cased extension is not .mp4, .mkv or .avi; when it  *)
(* is confirmed it issues one unlink for every listed file and nothing     *)
(* else; each of its steps removes only such a file of F; when its last    *)
(* unlink has succeeded no such file is left under F. In the season folder *)
(* of the example readme.txt is the only file unlinked.                    *)
(***************************************************************************)
\* the files of the store f under folder without a video extension
NonVideosBelow(f, folder) ==
  {e \in FilesBelow(f, folder) : ~HasVideoExtension(basename(e))}

\* the files a batch of operations still works on
SourcesOf(pending) == {pending[k].from : k \in 1..Len(pending)}

\* the user has agreed to the purge of the prompt: its unlinks are in flight
PurgeConfirmed(prompt) ==
  /\ AnswerPurge
  /\ prompt \in LiveOf("non-video-purge")
  /\ InFlightAt({"promptNonVideoPurge.unlinks"})' > InFlightAt({"promptNonVideoPurge.unlinks"})

C24_PurgeDeletesNonVideosOnly ==
  /\ [][ PurgeListed =>
           \A prompt \in live' \ live :
             /\ prompt.kind = "non-video-purge"
             /\ SeqToSet(prompt.nonVideoFiles) = NonVideosBelow(fs, prompt.folderToPurge)
             /\ Len(prompt.nonVideoFiles) = Cardinality(NonVideosBelow(fs, prompt.folderToPurge))
             /\ FilesBelow(fs, <<Str_tv, Str_S1>>) = FilesBelow(FilesFs, <<Str_tv, Str_S1>>)
                  /\ prompt.folderToPurge = <<Str_tv, Str_S1>>
                  => prompt.nonVideoFiles = << <<Str_tv, Str_S1, Str_readmetxt>> >> ]_vars
  /\ [][ \A prompt \in LiveOf("non-video-purge") : PurgeConfirmed(prompt) =>
           \E i \in 1..Len(tasks') :
             /\ tasks'[i].pc = "promptNonVideoPurge.unlinks"
             /\ tasks'[i].folderToPurge = prompt.folderToPurge
             /\ tasks'[i].pending =
                  [k \in 1..Len(prompt.nonVideoFiles) |-> UnlinkOp(prompt.nonVideoFiles[k])] ]_vars
  /\ [][ PurgeUnlinkDone =>
           \E i \in TasksAt("promptNonVideoPurge.unlinks") :
             /\ fs'.dirs = fs.dirs
             /\ fs'.files \subseteq fs.files
             /\ fs.files \ fs'.files \subseteq NonVideosBelow(fs, tasks[i].folderToPurge)
             /\ (Len(tasks[i].pending) = 1 /\ fs' # fs)
                  => NonVideosBelow(fs', tasks[i].folderToPurge) = {} ]_vars

\* the purge of /tv/A has ended: both text files under it are gone, the video
\* with the upper-case extension and every file of /tv/S1 are still there
C24_Witness ==
  /\ ~crashed
  /\ fs.dirs = FilesFs.dirs
  /\ fs.files = FilesFs.files \ {<<Str_tv, Str_A, Str_ntxt>>, <<Str_tv, Str_A, Str_B, Str_ntxt>>}
  /\ InFlightAt({"promptNonVideoPurge.unlinks"}) = 0
  /\ FolderSelectionEntered

\* the purge of the season folder of the example has ended: readme.txt is the
\* only file that is gone
C24_ExampleWitness ==
  /\ ~crashed
  /\ fs.files = FilesFs.files \ {<<Str_tv, Str_S1, Str_readmetxt>>}
  /\ FolderSelectionEntered


(***************************************************************************)
(* C25: when a confirmed hoist of directory D ends, every rename having    *)
(* succeeded and no subfolder of D being left, every file that was under   *)
(* D when the hoist was confirmed lies directly in D under its name, and   *)
(* D holds as many files as were under it.                                 *)
(***************************************************************************)
\* the last step of a hoist whose renames all succeeded: no folder was left
\* to remove, or the last rimraf has called back
HoistEnded(i) ==
  \/ /\ HoistFoldersListed /\ tasks[i].pc = "hoistFiles.folders"
     /\ InFlightAt({"hoistFiles.rimraf"})' = InFlightAt({"hoistFiles.rimraf"})
  \/ /\ HoistRimrafDone /\ tasks[i].pc = "hoistFiles.rimraf"
     /\ Len(tasks[i].pending) = 1

C25_HoistKeepsEveryFile ==
  [][ \A i \in 1..Len(tasks) :
        ( /\ HoistEnded(i)
          /\ InFlightAt({"hoistFiles.folders", "hoistFiles.rimraf"})'
               < InFlightAt({"hoistFiles.folders", "hoistFiles.rimraf"})
          /\ getFolderNames(fs', tasks[i].directory) = Some(<<>>) )
        => /\ \A k \in 1..Len(tasks[i].files) :
                join(tasks[i].directory, basename(tasks[i].files[k])) \in fs'.files
           /\ Cardinality(FilesBelow(fs', tasks[i].directory)) = Len(tasks[i].files) ]_vars


(***************************************************************************)
(* C26: every accepted batch rename reports a count that equals the number *)
(* of files whose rename succeeded: when renameEpisodes ends in a process  *)
(* that lives on, the count written is the number of its renames that      *)
(* have succeeded.                                                         *)
(***************************************************************************)
\* the renames of the batch that have succeeded so far
SucceededRenames(batch) == Len(batch.issued) - Len(batch.pending)

C26_ReportedCountIsSucceeded ==
  [][ \A i \in TasksAt("renameEpisodes") :
        ( /\ RenameEpisodeDone \/ RenameEpisodesLogged
          /\ InFlightAt({"renameEpisodes"})' < InFlightAt({"renameEpisodes"})
          /\ ~crashed' )
        => consoleLog' = Some(RenamedMessage(SucceededRenames(tasks[i]))) ]_vars


(***************************************************************************)
(* C27: within one series selection the episode data is fetched once:      *)
(* leaving assign-episode, by an assignment, by escape or by backspace,    *)
(* starts no call of tvdb.getSeriesAllById.                                *)
(***************************************************************************)
\* the calls of tvdb.getSeriesAllById in flight (promptEpisodeRenames awaits
\* the call at 1486)
ProviderQueries == InFlightAt({"promptEpisodeRenames"})

C27_EpisodeDataFetchedOnce ==
  [][ SubmitEpisodeAssign \/ CancelEpisodeAssign \/ BackspaceEpisodeAssign
        => ProviderQueries' <= ProviderQueries ]_vars


(***************************************************************************)
(* C28: nothing prevents duplicates. Two mappings of one season matched to *)
(* the same episode, of files with the same lower-cased extension, have    *)
(* the same updatedPath, and accept issues the rename of each of them to   *)
(* that path; a state with two renames of different files to one path in   *)
(* flight is reachable.                                                    *)
(***************************************************************************)
\* two entries of one season for different files matched to the same episode
DuplicatePairs(seasonMapping) ==
  { pair \in MappingPositions(seasonMapping) \X MappingPositions(seasonMapping) :
      LET first == MappingAt(seasonMapping, pair[1]).value
          second == MappingAt(seasonMapping, pair[2]).value
      IN /\ pair[1][1] = pair[2][1]
         /\ first.originalPath # second.originalPath
         /\ first.episode # None /\ first.episode = second.episode }

C28_DuplicatesAreNotPrevented ==
  /\ [](currentEpisodeRenames # None =>
          \A pair \in DuplicatePairs(currentEpisodeRenames[1]) :
            LET first == MappingAt(currentEpisodeRenames[1], pair[1]).value
                second == MappingAt(currentEpisodeRenames[1], pair[2]).value
            IN toLowerCase(extname(basename(first.originalPath)))
                 = toLowerCase(extname(basename(second.originalPath)))
               => first.updatedPath = second.updatedPath)
  /\ [][ (KeyAcceptEpisodeRenames /\ currentEpisodeRenames # None) =>
           \E i \in 1..Len(tasks') :
             /\ tasks'[i].pc = "renameEpisodes"
             /\ i > Len(tasks)
             /\ \A pair \in DuplicatePairs(currentEpisodeRenames[1]) :
                  LET first == MappingAt(currentEpisodeRenames[1], pair[1]).value
                  IN first.rename
                       => TimesIssued(tasks'[i].issued,
                                      RenameOp(first.originalPath, first.updatedPath)) = 1 ]_vars

\* a batch is in flight that has issued the renames of two different files to
\* one path, after a manual assignment
C28_Witness ==
  \E i \in TasksAt("renameEpisodes") :
    \E k1, k2 \in 1..Len(tasks[i].issued) :
      /\ tasks[i].issued[k1].from # tasks[i].issued[k2].from
      /\ tasks[i].issued[k1].to = tasks[i].issued[k2].to
      /\ DuplicatePairs(tasks[i].episodeRenames) # {}


(***************************************************************************)
(* C29: the season sections of the review list appear in ascending numeric *)
(* order of the season number (season 2 before season 10), and so do the   *)
(* entries of the list.                                                    *)
(***************************************************************************)
C29_SeasonSectionsAscending ==
  (unitInput.fn = "reviewSections" /\ unitOutput # None)
    => LET seasons == unitOutput[1].seasons
           choices == unitOutput[1].choices
       IN /\ \A j, k \in 1..Len(seasons) :
               j < k => parseInt(seasons[j]) < parseInt(seasons[k])
          /\ \A j, k \in 1..Len(choices) :
               j < k => choices[j].value.seasonNumber <= choices[k].value.seasonNumber


(***************************************************************************)
(* C30: every mapping lies in the season of the number written first in    *)
(* the name of the folder its file is in, and a matched episode is an      *)
(* episode of that season, after the build and after manual assignments;   *)
(* the assign-episode list offers the episodes of that season only.        *)
(***************************************************************************)
\* the number written by the leftmost run of digits of a folder name
FolderSeason(folderName) ==
  NumberAt(folderName, Leftmost({i \in 1..Len(folderName) : IsDigit(folderName[i])}))

C30_EpisodeOfTheFoldersSeason ==
  /\ [](currentEpisodeRenames # None =>
          \A position \in MappingPositions(currentEpisodeRenames[1]) :
            LET mapping == MappingAt(currentEpisodeRenames[1], position).value
                folderName == basename(dirname(mapping.originalPath))
            IN /\ HasDigit(folderName)
               /\ mapping.seasonNumber = FolderSeason(folderName)
               /\ position[1] = FolderSeason(folderName)
               /\ mapping.episode # None
                    => mapping.episode[1].airedSeason = FolderSeason(folderName))
  /\ [](\A prompt \in LiveOf("assign-episode") :
          LET folderName == basename(dirname(prompt.episodeMapping.value.originalPath))
          IN \A k \in 1..Len(prompt.choices) :
               prompt.choices[k].airedSeason = FolderSeason(folderName))

\* b.mkv of the folder S1 was assigned by hand and e1.mkv matched by the
\* build: both have an episode of season 1, and the series has an episode with
\* the same number in season 2
C30_Witness ==
  /\ currentEpisodeRenames # None
  /\ \E p1, p2 \in MappingPositions(currentEpisodeRenames[1]) :
       /\ MappingAt(currentEpisodeRenames[1], p1).value.originalPath = <<Str_tv, Str_S1, Str_bmkv>>
       /\ MappingAt(currentEpisodeRenames[1], p1).value.episode # None
       /\ MappingAt(currentEpisodeRenames[1], p2).value.originalPath = <<Str_tv, Str_S1, Str_e1mkv>>
       /\ MappingAt(currentEpisodeRenames[1], p2).value.episode # None
  /\ \E k \in 1..Len(SeriesDetails(1).episodes) : SeriesDetails(1).episodes[k].airedSeason = 2


(***************************************************************************)
(* C31: in the move prompt a folder of the browsed directory is disabled   *)
(* only when it is the moved folder or lies under it: every other folder   *)
(* of the listing, a sibling whose name starts with the moved folder's     *)
(* name included, is among the entries that can be selected.               *)
(***************************************************************************)
\* the folders of the listing that are neither the moved folder nor under it
OutsideMoved(f, prompt) ==
  LET folders == getFolderNames(f, prompt.currentDirectory)
  IN IF folders = None THEN {}
     ELSE {name \in SeqToSet(folders[1]) :
             ~IsPrefix(prompt.folderToMove, join(prompt.currentDirectory, name))}

C31_OnlySelfAndNestedDisabled ==
  [][ (MoveFolderListed /\ prompts' # prompts)
        => OutsideMoved(fs, prompts'.moveFolderPrompt[1])
             \subseteq SeqToSet(prompts'.moveFolderPrompt[1].choices) ]_vars


(***************************************************************************)
(* C32: an accept in the move prompt commits the move of the folder to     *)
(* <browsed directory>/<name of the moved folder>, the browsed directory   *)
(* being the one of the latest promptMoveFolder call, also while its       *)
(* listing is still loading: never a target computed for the directory     *)
(* browsed before or for an earlier move.                                  *)
(***************************************************************************)
\* the directory of the latest promptMoveFolder call: the one still loading,
\* else the one of the prompt on screen; None when there is neither
BrowsedDirectory ==
  IF TasksAt("promptMoveFolder") # {}
    THEN Some(tasks[CHOOSE i \in TasksAt("promptMoveFolder") :
                      \A j \in TasksAt("promptMoveFolder") : j <= i].currentDirectory)
  ELSE IF FieldLive("moveFolderPrompt")
    THEN Some(prompts.moveFolderPrompt[1].currentDirectory)
  ELSE None

C32_AcceptMovesToBrowsedDirectory ==
  [][ (KeyAcceptMove /\ Len(tasks') > Len(tasks) /\ BrowsedDirectory # None)
        => LET call == tasks'[Len(tasks')]
           IN /\ call.folderToMove = currentFolderToMove[1]
              /\ call.target = join(BrowsedDirectory[1], basename(call.folderToMove)) ]_vars


(***************************************************************************)
(* C33: while the move prompt on screen says that the browsed directory    *)
(* already holds a folder with the moved folder's name, an accept issues   *)
(* no move of the folder to another place.                                 *)
(***************************************************************************)
\* the move prompt on screen is the one of the latest promptMoveFolder call
\* and offers no accept
AcceptNotOffered ==
  /\ currentPrompt = "move-folder"
  /\ TasksAt("promptMoveFolder") = {}
  /\ FieldLive("moveFolderPrompt")
  /\ ~prompts.moveFolderPrompt[1].targetIsAcceptable

C33_NoMoveWhereTheNameExists ==
  [][ (KeyAcceptMove /\ AcceptNotOffered)
        => ~\E i \in TasksAt("moveFolder")' :
               /\ i > Len(tasks)
               /\ tasks'[i].target # tasks'[i].folderToMove ]_vars


(***************************************************************************)
(* C34: of the handlers a keypress event is passed to, at most one takes   *)
(* an action, also when the handler of the active state has switched       *)
(* this.currentPrompt to a state whose test follows in handleKeyPress.     *)
(***************************************************************************)
C34_OneHandlerActsPerKey ==
  (unitInput.fn = "handleKeyPress" /\ unitOutput # None) => Len(unitOutput[1].acted) <= 1

\* m in folder-selection: the state is move-folder when its test is reached,
\* the move handler is called with the same m and does not act on it
C34_Witness ==
  /\ unitInput.fn = "handleKeyPress"
  /\ unitInput.currentPrompt = "folder-selection"
  /\ unitInput.key = "m"
  /\ unitOutput = Some([ called |-> <<"folder-selection", "move-folder">>,
                         acted |-> <<"folder-selection">>,
                         currentPrompt |-> "move-folder" ])


(***************************************************************************)
(* C35: the rename, the delete and the move started by r, d and m in       *)
(* folder-selection are given an immediate child of the current directory  *)
(* as their target, never the current directory or one of its ancestors,   *)
(* whatever entry is highlighted.                                          *)
(***************************************************************************)
IsChildOfCurrentDirectory(target) ==
  Len(target) = Len(currentDirectory) + 1 /\ dirname(target) = currentDirectory

C35_CommandsTargetChildren ==
  [][ /\ KeyRename => \A prompt \in LiveOf("rename")' \ LiveOf("rename") :
                        IsChildOfCurrentDirectory(join(prompt.directory, prompt.filename))
      /\ KeyDelete => IsChildOfCurrentDirectory(prompts'.confirmDeletePrompt[1].filePath)
      /\ KeyMove => IsChildOfCurrentDirectory(currentFolderToMove'[1]) ]_vars


(***************************************************************************)
(* C36: a hoist goes on to its subfolders (lists them and removes them)    *)
(* only when it has no file to move or when the last of its moves ends,    *)
(* all of them having succeeded; the step of a hoist in which a move fails *)
(* ends the hoist, and no step of a hoist before the removals changes the  *)
(* folders.                                                                *)
(***************************************************************************)
\* the hoists that are past their moves
PastMoves == {"hoistFiles.folders", "hoistFiles.rimraf"}

\* this step ends the last move of a hoist, and the move succeeds
LastMoveSucceeds ==
  \E i \in TasksAt("hoistFiles.moves") :
    /\ Len(tasks[i].pending) = 1
    /\ CanDo(fs, tasks[i].pending[1])
    /\ fs' = Done(fs, tasks[i].pending[1])
    /\ tasks'[i].pc = "hoistFiles.folders"

\* this step confirms a hoist that has no file to move
ConfirmedWithoutMoves ==
  /\ Len(tasks') = Len(tasks) + 1
  /\ tasks'[Len(tasks')].pc = "hoistFiles.folders"
  /\ HoistMoves(tasks'[Len(tasks')].directory, tasks'[Len(tasks')].files) = <<>>

C36_FoldersRemovedAfterAllMoves ==
  [][ /\ InFlightAt(PastMoves)' > InFlightAt(PastMoves)
           => (LastMoveSucceeds \/ ConfirmedWithoutMoves)
      /\ InFlightAt({"hoistFiles.rimraf"})' > InFlightAt({"hoistFiles.rimraf"})
           => HoistFoldersListed
      /\ (HoistMoveDone /\ fs' = fs)
           => InFlightAt(PastMoves)' = InFlightAt(PastMoves)
      /\ (HoistListed \/ AnswerHoist \/ HoistMoveDone \/ HoistFoldersListed)
           => fs'.dirs = fs.dirs ]_vars

\* the hoist of /tv/A has ended with a failed move: E1.MKV was moved up,
\* n.txt was not, and the folder B is still there with it
C36_Witness ==
  /\ ~crashed
  /\ FolderSelectionEntered
  /\ InFlightAt({"hoistFiles.moves", "orphans"} \cup PastMoves) = 0
  /\ <<Str_tv, Str_A, Str_E1MKV>> \in fs.files
  /\ <<Str_tv, Str_A, Str_B, Str_ntxt>> \in fs.files
  /\ <<Str_tv, Str_A, Str_B>> \in fs.dirs

\* the hoist of /tv/A removes B, every file of B having been moved up
C36_RemovalWitness ==
  /\ ~crashed
  /\ InFlightAt({"hoistFiles.rimraf"}) = 0
  /\ <<Str_tv, Str_A, Str_E1MKV>> \in fs.files
  /\ <<Str_tv, Str_A, Str_B>> \notin fs.dirs


(***************************************************************************)
(* C37: every file that lies directly in a folder of the series directory  *)
(* whose name holds a number has exactly one EpisodeMapping in the         *)
(* SeasonMapping built, also when two folders have the same number.        *)
(***************************************************************************)
\* the files directly in the folders of the series directory /tv that have a
\* number in their name
SeasonFolderFiles(f) ==
  {file \in f.files : Len(file) = 3 /\ file[1] = Str_tv /\ HasDigit(file[2])}

C37_EverySeasonFileMappedOnce ==
  (unitInput.fn = "reviewSections" /\ unitOutput # None) =>
    \A file \in SeasonFolderFiles(unitInput.store) :
      Cardinality({k \in 1..Len(unitOutput[1].choices) :
                     unitOutput[1].choices[k].value.originalPath = file}) = 1


(***************************************************************************)
(* C38: a video file whose name has no digit before its extension, such as *)
(* Show.mp4, is unparsed: it yields the unchanged mapping, no episode      *)
(* number being taken from the extension.                                  *)
(***************************************************************************)
\* the file name without its extension
Stem(fileName) == SubSeq(fileName, 1, Len(fileName) - Len(extname(fileName)))

C38_ExtensionIsNotParsed ==
  (unitInput.fn = "generateEpisodeName" /\ unitOutput # None) =>
    LET call == unitInput
        mapping == unitOutput[1]
    IN (HasVideoExtension(call.fileName) /\ ~HasDigit(Stem(call.fileName)))
         => /\ mapping.value.updatedPath = mapping.value.originalPath
            /\ mapping.value.episode = None
            /\ mapping.value.rename = FALSE
            /\ mapping.name = call.fileName


(***************************************************************************)
(* C39: the manual assignment of an episode to a file whose extension is   *)
(* no video extension leaves the file with the unchanged mapping           *)
(* (updatedPath = originalPath, no episode, rename false), and no batch    *)
(* rename issues a rename of such a file.                                  *)
(***************************************************************************)
C39_AssignLeavesNonVideoUnchanged ==
  /\ [][ (/\ SubmitEpisodeAssign
          /\ currentEpisodeRenames # None
          /\ currentEpisodeRenames' # None
          /\ ~HasVideoExtension(basename(currentEpisodeAssign[1].value.originalPath)))
           => LET file == currentEpisodeAssign[1].value.originalPath
                  ofFile == {position \in MappingPositions(currentEpisodeRenames'[1]) :
                               MappingAt(currentEpisodeRenames'[1], position).value.originalPath
                                 = file}
              IN /\ ofFile # {}
                 /\ \A position \in ofFile :
                      LET mapping == MappingAt(currentEpisodeRenames'[1], position)
                      IN /\ mapping.value.updatedPath = file
                         /\ mapping.value.episode = None
                         /\ mapping.value.rename = FALSE
                         /\ mapping.name = basename(file) ]_vars
  /\ [](\A i \in TasksAt("renameEpisodes") : \A k \in 1..Len(tasks[i].issued) :
          HasVideoExtension(basename(tasks[i].issued[k].from)))

\* n.txt of the season folder was selected in the review and an episode was
\* assigned to it: the review is entered again and n.txt is left as it is
C39_Witness ==
  /\ currentPrompt = "episode-renames"
  /\ inputs = MaxSeriesInputs - 6
  /\ consoleLog = Some(MappingMessage)
  /\ currentEpisodeAssign # None
  /\ currentEpisodeAssign[1].value.originalPath = <<Str_tv, Str_S1, Str_ntxt>>
  /\ currentEpisodeRenames # None
  /\ \E position \in MappingPositions(currentEpisodeRenames[1]) :
       /\ MappingAt(currentEpisodeRenames[1], position).value.originalPath
            = <<Str_tv, Str_S1, Str_ntxt>>
       /\ ~MappingAt(currentEpisodeRenames[1], position).value.rename

====
